---- MODULE Spec2Model ----
(***************************************************************************)
(* Pothole geotagging pipeline: the Express/WebSocket backend              *)
(* (server/index.js, services/notificationManager.js,                      *)
(* services/coordinateCalculator.js, services/potholeStorage.js), the      *)
(* React observer screen (app/map.tsx) and the sender of the detector      *)
(* (Pothole/main.cpp).                                                     *)
(*                                                                         *)
(* Lengths and coordinates are integers: one unit is one centimetre on a   *)
(* local planar grid (latitude grows to the north, longitude to the east). *)
(* Bearings are the four cardinal directions, which is exact for the       *)
(* axis-aligned positions the model draws its inputs from.                 *)
(***************************************************************************)
EXTENDS Integers, Sequences, FiniteSets, TLC

VARIABLES
  potholes,            \* server: content of data/potholes.json (a sequence)
  notifications,       \* server: notificationManager's Map, in insertion order
  clock,               \* server: Date.now(), advanced by every webhook call
  http,                \* server: the response to the last request handled
  fsFault,             \* server: "none", "read" or "write" failure of the file
  requests,            \* observer -> server POSTs in flight
  pc,                  \* observer: progress of initializeMap
  routeCoordinates,    \* observer: React state routeCoordinates
  vehiclePosition,     \* observer: React state vehiclePosition
  vehicleIndex,        \* observer: React state vehicleIndex
  clientNotifications, \* observer: React state notifications
  ws,                  \* observer: state of its WebSocket
  inbox,               \* observer: push messages sent to it, not yet handled
  dismissed,           \* observer: ids it has dismissed (history)
  detector             \* detector: send_batch, its buffer and the posting threads

serverVars == <<potholes, notifications, clock, http, fsFault>>
observerVars == <<pc, routeCoordinates, vehiclePosition, vehicleIndex,
                  clientNotifications, ws, inbox, dismissed>>
vars == <<potholes, notifications, clock, http, fsFault, requests, pc,
          routeCoordinates, vehiclePosition, vehicleIndex,
          clientNotifications, ws, inbox, dismissed, detector>>

(***************************************************************************)
(* Values                                                                  *)
(***************************************************************************)
NULL == [null |-> TRUE]          \* JavaScript null / a missing object
UNDEFINED == 0 - 99999           \* a missing number (no input takes this value)
NoId == <<"none", 0>>            \* a missing id

Coord(lat, lon) == [latitude |-> lat, longitude |-> lon]

Abs(n) == IF n < 0 THEN 0 - n ELSE n

\* a || b on numbers: 0 and undefined are falsy
OrElse(a, b) == IF a = UNDEFINED \/ a = 0 THEN b ELSE a

\* !c || !c.latitude || !c.longitude
FalsyCoordinates(c) == c = NULL \/ c.latitude = 0 \/ c.longitude = 0

\* a number that is not finite: 1e999 in a JSON body is parsed to Infinity
Infinity == 88888

isFinite(x) == Abs(x) # Infinity

\* c && typeof c.latitude === 'number' && ... && isFinite(c.longitude)
isValidCoord(c) == c # NULL /\ isFinite(c.latitude) /\ isFinite(c.longitude)

(***************************************************************************)
(* Program constants (centimetres)                                         *)
(***************************************************************************)
DUPLICATE_THRESHOLD_METERS == 500
\* the threshold entered in the wrong unit: 0.02 cm instead of 0.02 m
TooCloseWrongUnit == 2 \div 100

\* the distance update interval asks for the entries within 50 m and alerts
\* for those within 20 m
NEARBY_RADIUS == 5000
ALERT_DISTANCE == 2000

TOO_CLOSE_THRESHOLD_METERS == 2
DETECTIONS_PER_COUNT_INCREMENT == 10

(***************************************************************************)
(* Bounds                                                                  *)
(***************************************************************************)
MaxWebhooks == 2      \* webhook calls in Spec
MaxRun == 21          \* webhook calls in SpecCatalog
MaxInbox == 1         \* undelivered push messages per observer
MaxRequests == 2      \* observer POSTs in flight
MaxDismiss == 1       \* dismissals per observer

Observers == {"o1", "o2"}

(***************************************************************************)
(* Geodesy                                                                 *)
(***************************************************************************)
CeilSqrt(s, lo, hi) == CHOOSE d \in lo..hi : d * d >= s /\ (d = lo \/ (d - 1) * (d - 1) < s)

\* Haversine distance; on the grid the Euclidean distance, rounded up so
\* that distance <= r holds exactly when the true distance is <= r. The
\* arithmetic has no validation: an operand that is not finite gives a result
\* that is not finite.
calculateDistance(coord1, coord2) ==
  LET dLat == Abs(coord2.latitude - coord1.latitude)
      dLon == Abs(coord2.longitude - coord1.longitude)
  IN  IF ~isValidCoord(coord1) \/ ~isValidCoord(coord2) THEN Infinity
      ELSE IF dLat = 0 THEN dLon
      ELSE IF dLon = 0 THEN dLat
      ELSE CeilSqrt(dLat * dLat + dLon * dLon,
                    IF dLat > dLon THEN dLat ELSE dLon, dLat + dLon)

\* services/distanceCalculator.js of the server: the same formula
distanceCalculator(coord1, coord2) == calculateDistance(coord1, coord2)

\* atan2(y, x) in degrees, quantised: atan2(0, 0) = 0
calculateBearing(coord1, coord2) ==
  LET dLat == coord2.latitude - coord1.latitude
      dLon == coord2.longitude - coord1.longitude
  IN  IF Abs(dLon) > Abs(dLat)
      THEN (IF dLon > 0 THEN 90 ELSE 270)
      ELSE (IF dLat >= 0 THEN 0 ELSE 180)

calculateDestination(startCoord, bearingDeg, distanceMeters) ==
  CASE bearingDeg = 0   -> Coord(startCoord.latitude + distanceMeters, startCoord.longitude)
    [] bearingDeg = 90  -> Coord(startCoord.latitude, startCoord.longitude + distanceMeters)
    [] bearingDeg = 180 -> Coord(startCoord.latitude - distanceMeters, startCoord.longitude)
    [] bearingDeg = 270 -> Coord(startCoord.latitude, startCoord.longitude - distanceMeters)

\* services/coordinateCalculator.js
calculatePotholeCoordinates(vehicleCoord, nextCoord, distanceMeters, lateralMeters) ==
  IF vehicleCoord = NULL \/ nextCoord = NULL THEN NULL
  ELSE LET bearing == calculateBearing(vehicleCoord, nextCoord)
           forwardPoint == calculateDestination(vehicleCoord, bearing, distanceMeters)
           perpendicularBearing == (bearing + 90) % 360
           leftBearing == (bearing - 90 + 360) % 360
       IN  IF lateralMeters < 0
           THEN calculateDestination(forwardPoint, leftBearing, Abs(lateralMeters))
           ELSE calculateDestination(forwardPoint, perpendicularBearing, Abs(lateralMeters))

(***************************************************************************)
(* services/potholeStorage.js                                              *)
(***************************************************************************)
\* loadPotholes: the parsed file, or [] when reading or parsing fails
loadPotholes(file, fault) == IF fault = "read" THEN <<>> ELSE file

\* savePotholes: [file after the call, ok]
savePotholes(file, list, fault) ==
  IF fault = "write" THEN [file |-> file, ok |-> FALSE]
  ELSE [file |-> list, ok |-> TRUE]

\* a search that takes an entry at exactly the threshold for another defect
RECURSIVE FirstWithinStrict(_, _, _)
FirstWithinStrict(list, coordinates, i) ==
  IF i > Len(list) THEN NULL
  ELSE IF ~FalsyCoordinates(list[i].coordinates)
          /\ distanceCalculator(coordinates, list[i].coordinates) < DUPLICATE_THRESHOLD_METERS
       THEN list[i]
       ELSE FirstWithinStrict(list, coordinates, i + 1)

RECURSIVE FirstWithin(_, _, _)
FirstWithin(list, coordinates, i) ==
  IF i > Len(list) THEN NULL
  ELSE IF ~FalsyCoordinates(list[i].coordinates)
          /\ distanceCalculator(coordinates, list[i].coordinates) <= DUPLICATE_THRESHOLD_METERS
       THEN list[i]
       ELSE FirstWithin(list, coordinates, i + 1)

findExistingPothole(file, fault, coordinates) ==
  IF FalsyCoordinates(coordinates) THEN NULL
  ELSE FirstWithin(loadPotholes(file, fault), coordinates, 1)

\* addPothole: [file after the call, success, pothole]
addPothole(file, fault, now, potholeData) ==
  IF FalsyCoordinates(potholeData.coordinates)
  THEN [file |-> file, success |-> FALSE, pothole |-> NULL]
  ELSE LET existing == findExistingPothole(file, fault, potholeData.coordinates) IN
       IF existing # NULL
       THEN [file |-> file, success |-> FALSE, pothole |-> existing]
       ELSE LET pothole == [id |-> <<"pothole", now>>,
                            coordinates |-> potholeData.coordinates,
                            distance_m |-> OrElse(potholeData.distance_m, 0),
                            lateral_m |-> OrElse(potholeData.lateral_m, 0),
                            detected_at |-> now,
                            updated_at |-> now,
                            detection_count |-> 1,
                            pending_detections |-> 1]
                saved == savePotholes(file, Append(loadPotholes(file, fault), pothole), fault)
            IN  [file |-> saved.file, success |-> saved.ok,
                 pothole |-> IF saved.ok THEN pothole ELSE NULL]

\* getPotholesNearby: the entries within radiusMeters, in file order
getPotholesNearby(file, fault, coordinates, radiusMeters) ==
  IF FalsyCoordinates(coordinates) THEN <<>>
  ELSE SelectSeq(loadPotholes(file, fault),
                 LAMBDA pothole :
                   /\ pothole.coordinates # NULL
                   /\ distanceCalculator(coordinates, pothole.coordinates)
                        <= radiusMeters)

IndexOfId(list, id) ==
  IF \E i \in 1..Len(list) : list[i].id = id
  THEN CHOOSE i \in 1..Len(list) : list[i].id = id /\ \A j \in 1..(i - 1) : list[j].id # id
  ELSE 0

\* an increment that also moves the entry to the newest detection
incrementDetectionCountMoving(file, fault, now, potholeId, newCoordinates) ==
  LET list == loadPotholes(file, fault)
      index == IndexOfId(list, potholeId)
  IN  IF index = 0 THEN [file |-> file, pothole |-> NULL]
      ELSE IF newCoordinates # NULL /\ list[index].coordinates # NULL
              /\ distanceCalculator(newCoordinates, list[index].coordinates)
                   <= TOO_CLOSE_THRESHOLD_METERS
      THEN [file |-> file, pothole |-> list[index]]
      ELSE LET pending == list[index].pending_detections + 1
               reached == pending >= DETECTIONS_PER_COUNT_INCREMENT
               entry == [list[index] EXCEPT
                           !.coordinates = newCoordinates,
                           !.pending_detections = IF reached THEN 0 ELSE pending,
                           !.detection_count = IF reached THEN @ + 1 ELSE @,
                           !.updated_at = now]
               saved == savePotholes(file, [list EXCEPT ![index] = entry], fault)
           IN  [file |-> saved.file, pothole |-> entry]

\* an increment that leaves the buffer as it is when the count is raised
incrementDetectionCountKeepingBuffer(file, fault, now, potholeId, newCoordinates) ==
  LET list == loadPotholes(file, fault)
      index == IndexOfId(list, potholeId)
  IN  IF index = 0 THEN [file |-> file, pothole |-> NULL]
      ELSE IF newCoordinates # NULL /\ list[index].coordinates # NULL
              /\ distanceCalculator(newCoordinates, list[index].coordinates)
                   <= TOO_CLOSE_THRESHOLD_METERS
      THEN [file |-> file, pothole |-> list[index]]
      ELSE LET pending == list[index].pending_detections + 1
               reached == pending >= DETECTIONS_PER_COUNT_INCREMENT
               entry == [list[index] EXCEPT
                           !.pending_detections = pending,
                           !.detection_count = IF reached THEN @ + 1 ELSE @,
                           !.updated_at = now]
               saved == savePotholes(file, [list EXCEPT ![index] = entry], fault)
           IN  [file |-> saved.file, pothole |-> entry]

\* incrementDetectionCount: [file after the call, pothole returned]
incrementDetectionCount(file, fault, now, potholeId, newCoordinates) ==
  LET list == loadPotholes(file, fault)
      index == IndexOfId(list, potholeId)
  IN  IF index = 0 THEN [file |-> file, pothole |-> NULL]
      ELSE IF newCoordinates # NULL /\ list[index].coordinates # NULL
              /\ distanceCalculator(newCoordinates, list[index].coordinates)
                   <= TOO_CLOSE_THRESHOLD_METERS
      THEN [file |-> file, pothole |-> list[index]]
      ELSE LET pending == list[index].pending_detections + 1
               reached == pending >= DETECTIONS_PER_COUNT_INCREMENT
               entry == [list[index] EXCEPT
                           !.pending_detections = IF reached THEN 0 ELSE pending,
                           !.detection_count = IF reached THEN @ + 1 ELSE @,
                           !.updated_at = now]
               saved == savePotholes(file, [list EXCEPT ![index] = entry], fault)
           IN  [file |-> saved.file, pothole |-> entry]

(***************************************************************************)
(* services/notificationManager.js                                         *)
(*                                                                         *)
(* A notification is flattened: the fields of notification.pothole         *)
(* (distance_m, lateral_m, coordinates, existing, detection_count,         *)
(* count_incremented) and notification.vehicle.coordinates (vehicle) sit   *)
(* next to id and current_distance.  track_id, size, frame, theta_deg and  *)
(* the timestamps are carried unchanged by every operation and left out.   *)
(***************************************************************************)
\* ids taken from a clock too coarse to tell two detections apart
createNotificationCoarseId(detectionData, now) ==
  LET batch == Len(detectionData.detections) > 0
      firstDetection == detectionData.detections[1]
      distance_m == IF batch THEN firstDetection.d
                    ELSE OrElse(detectionData.distance_m, UNDEFINED)
      lateral_m == IF batch THEN firstDetection.x
                   ELSE OrElse(detectionData.lateral_m, UNDEFINED)
  IN  [id |-> <<"notification", now \div 2>>,
       distance_m |-> distance_m,
       lateral_m |-> lateral_m,
       coordinates |-> detectionData.coordinates,
       vehicle |-> NULL,
       current_distance |-> distance_m,
       existing |-> FALSE,
       detection_count |-> 0,
       count_incremented |-> FALSE]

createNotification(detectionData, now) ==
  LET batch == Len(detectionData.detections) > 0
      firstDetection == detectionData.detections[1]
      distance_m == IF batch THEN firstDetection.d
                    ELSE OrElse(detectionData.distance_m, UNDEFINED)
      lateral_m == IF batch THEN firstDetection.x
                   ELSE OrElse(detectionData.lateral_m, UNDEFINED)
  IN  [id |-> <<"notification", now>>,
       distance_m |-> distance_m,
       lateral_m |-> lateral_m,
       coordinates |-> detectionData.coordinates,
       vehicle |-> NULL,
       current_distance |-> distance_m,
       existing |-> FALSE,
       detection_count |-> 0,
       count_incremented |-> FALSE]

\* notifications.set(id, notification): a Map keeps one value per key
MapSet(map, notification) ==
  IF \E i \in 1..Len(map) : map[i].id = notification.id
  THEN [i \in 1..Len(map) |->
          IF map[i].id = notification.id THEN notification ELSE map[i]]
  ELSE Append(map, notification)

getNotification(map, id) ==
  IF IndexOfId(map, id) = 0 THEN NULL ELSE map[IndexOfId(map, id)]

updateDistance(map, notificationId, currentDistance, vehicleCoordinates) ==
  [i \in 1..Len(map) |->
     IF map[i].id = notificationId
     THEN [map[i] EXCEPT !.current_distance = currentDistance,
                         !.vehicle = vehicleCoordinates]
     ELSE map[i]]

setPotholeCoordinates(map, notificationId, coordinates) ==
  [i \in 1..Len(map) |->
     IF map[i].id = notificationId
     THEN [map[i] EXCEPT !.coordinates = coordinates]
     ELSE map[i]]

deleteNotification(map, id) == SelectSeq(map, LAMBDA n : n.id # id)

(***************************************************************************)
(* server/index.js                                                         *)
(***************************************************************************)
\* a broadcast without the readyState test: every socket among the clients
\* is sent the message
broadcastToClients(boxes, data) ==
  [o \in Observers |-> IF ws[o] \in {"open", "closing"}
                       THEN Append(boxes[o], data) ELSE boxes[o]]

\* broadcast: the message goes to every client whose socket is OPEN
broadcast(boxes, data) ==
  [o \in Observers |-> IF ws[o] = "open" THEN Append(boxes[o], data) ELSE boxes[o]]

\* the bound of the model on the messages waiting for one observer; the
\* specifications that let observers fall behind do not use it
CanBroadcast == \A o \in Observers : ws[o] = "open" => Len(inbox[o]) < MaxInbox

\* POST /webhook
WebhookStep(detectionData) ==
  LET now == clock + 1
      created == createNotification(detectionData, now)
      vehicleCoord == detectionData.vehicleCoordinates
      nextCoord == IF detectionData.nextRouteCoordinate # NULL
                   THEN detectionData.nextRouteCoordinate ELSE vehicleCoord
      potholeCoords ==
        IF vehicleCoord # NULL
        THEN calculatePotholeCoordinates(vehicleCoord, nextCoord,
                                         OrElse(created.distance_m, 0),
                                         OrElse(created.lateral_m, 0))
        ELSE NULL
      notification == IF potholeCoords # NULL
                      THEN [created EXCEPT !.coordinates = potholeCoords]
                      ELSE created
      existingPothole == IF potholeCoords # NULL
                         THEN findExistingPothole(potholes, fsFault, potholeCoords)
                         ELSE NULL
  IN
  /\ clock' = now
  /\ notifications' = MapSet(notifications, notification)
  /\ IF existingPothole # NULL
     THEN LET distance == distanceCalculator(potholeCoords, existingPothole.coordinates)
              countIncremented == distance > TOO_CLOSE_THRESHOLD_METERS
              inc == incrementDetectionCount(potholes, fsFault, now,
                                             existingPothole.id, potholeCoords)
              updated == IF countIncremented THEN inc.pothole ELSE existingPothole
          IN  /\ potholes' = IF countIncremented THEN inc.file ELSE potholes
              /\ inbox' = broadcast(inbox,
                   [type |-> "existing_pothole_alert",
                    data |-> [notification EXCEPT
                                !.coordinates = existingPothole.coordinates,
                                !.existing = TRUE,
                                !.detection_count = updated.detection_count,
                                !.count_incremented = countIncremented]])
              /\ http' = [op |-> "webhook", status |-> 200, success |-> TRUE,
                          isDuplicate |-> TRUE,
                          notificationId |-> NoId,
                          existingPotholeId |-> existingPothole.id,
                          detectionCount |-> updated.detection_count,
                          countIncremented |-> countIncremented]
     ELSE LET saveResult ==
                IF potholeCoords # NULL
                THEN addPothole(potholes, fsFault, now,
                                [coordinates |-> potholeCoords,
                                 distance_m |-> notification.distance_m,
                                 lateral_m |-> notification.lateral_m])
                ELSE [file |-> potholes, success |-> FALSE, pothole |-> NULL]
          IN  /\ potholes' = saveResult.file
              /\ inbox' = broadcast(inbox, [type |-> "pothole_detected",
                                            data |-> notification])
              /\ http' = [op |-> "webhook", status |-> 200, success |-> TRUE,
                          isDuplicate |-> FALSE,
                          notificationId |-> notification.id,
                          existingPotholeId |-> NoId,
                          detectionCount |-> 0,
                          countIncremented |-> FALSE]
  /\ UNCHANGED <<detector, fsFault, requests, pc, routeCoordinates, vehiclePosition,
                 vehicleIndex, clientNotifications, ws, dismissed>>

\* POST /set-pothole-coordinates
SetPotholeCoordinatesStep(req) ==
  LET found == getNotification(notifications, req.notificationId)
      map == setPotholeCoordinates(notifications, req.notificationId, req.coordinates)
  IN
  /\ CanBroadcast
  /\ IF req.notificationId = NoId \/ req.coordinates = NULL
     THEN /\ http' = [op |-> "set-pothole-coordinates", status |-> 400, success |-> FALSE]
          /\ UNCHANGED <<detector, notifications, inbox>>
     ELSE IF found = NULL
     THEN /\ http' = [op |-> "set-pothole-coordinates", status |-> 404, success |-> FALSE]
          /\ UNCHANGED <<detector, notifications, inbox>>
     ELSE /\ notifications' = map
          /\ inbox' = broadcast(inbox, [type |-> "pothole_updated",
                                        data |-> getNotification(map, req.notificationId)])
          /\ http' = [op |-> "set-pothole-coordinates", status |-> 200, success |-> TRUE]
  /\ UNCHANGED <<detector, potholes, clock, fsFault, pc, routeCoordinates, vehiclePosition,
                 vehicleIndex, clientNotifications, ws, dismissed>>

\* POST /update-distance without the check of the vehicle coordinates
UpdateDistanceStepUnchecked(req) ==
  LET notification == getNotification(notifications, req.notificationId)
      currentDistance ==
        IF ~isValidCoord(notification.coordinates) THEN notification.current_distance
        ELSE distanceCalculator(req.coordinates, notification.coordinates)
      map == updateDistance(notifications, req.notificationId, currentDistance,
                            req.coordinates)
  IN
  /\ CanBroadcast
  /\ IF req.notificationId = NoId \/ req.coordinates = NULL
     THEN /\ http' = [op |-> "update-distance", status |-> 400, success |-> FALSE]
          /\ UNCHANGED <<detector, notifications, inbox>>
     ELSE IF notification = NULL
     THEN /\ http' = [op |-> "update-distance", status |-> 404, success |-> FALSE]
          /\ UNCHANGED <<detector, notifications, inbox>>
     ELSE /\ notifications' = map
          /\ inbox' = broadcast(inbox, [type |-> "distance_updated",
                                        data |-> getNotification(map, req.notificationId)])
          /\ http' = [op |-> "update-distance", status |-> 200, success |-> TRUE]
  /\ UNCHANGED <<detector, potholes, clock, fsFault, pc, routeCoordinates, vehiclePosition,
                 vehicleIndex, clientNotifications, ws, dismissed>>

\* POST /update-distance
UpdateDistanceStep(req) ==
  LET notification == getNotification(notifications, req.notificationId)
      currentDistance ==
        IF ~isValidCoord(notification.coordinates) THEN notification.current_distance
        ELSE distanceCalculator(req.coordinates, notification.coordinates)
      map == updateDistance(notifications, req.notificationId, currentDistance,
                            req.coordinates)
  IN
  /\ CanBroadcast
  /\ IF req.notificationId = NoId \/ req.coordinates = NULL
     THEN /\ http' = [op |-> "update-distance", status |-> 400, success |-> FALSE]
          /\ UNCHANGED <<detector, notifications, inbox>>
     ELSE IF notification = NULL
     THEN /\ http' = [op |-> "update-distance", status |-> 404, success |-> FALSE]
          /\ UNCHANGED <<detector, notifications, inbox>>
     ELSE IF isValidCoord(notification.coordinates) /\ ~isValidCoord(req.coordinates)
     THEN /\ http' = [op |-> "update-distance", status |-> 400, success |-> FALSE]
          /\ UNCHANGED <<detector, notifications, inbox>>
     ELSE /\ notifications' = map
          /\ inbox' = broadcast(inbox, [type |-> "distance_updated",
                                        data |-> getNotification(map, req.notificationId)])
          /\ http' = [op |-> "update-distance", status |-> 200, success |-> TRUE]
  /\ UNCHANGED <<detector, potholes, clock, fsFault, pc, routeCoordinates, vehiclePosition,
                 vehicleIndex, clientNotifications, ws, dismissed>>

\* GET /potholes/nearby: a query string is missing (NULL) or parsed by
\* parseFloat; "0" is a string that is not empty
GetPotholesNearbyStep(coordinates, radius) ==
  /\ IF coordinates = NULL
     THEN http' = [op |-> "potholes-nearby", status |-> 400, success |-> FALSE]
     ELSE http' = [op |-> "potholes-nearby", status |-> 200, success |-> TRUE,
                   potholes |-> getPotholesNearby(potholes, fsFault, coordinates, radius)]
  /\ UNCHANGED <<detector, potholes, notifications, clock, fsFault, inbox, requests, pc,
                 routeCoordinates, vehiclePosition, vehicleIndex,
                 clientNotifications, ws, dismissed>>

\* the server takes one of the observers' POSTs in flight
SetPotholeCoordinates ==
  \E req \in requests :
    /\ req.kind = "set-pothole-coordinates"
    /\ requests' = requests \ {req}
    /\ SetPotholeCoordinatesStep(req)

UpdateDistance ==
  \E req \in requests :
    /\ req.kind = "update-distance"
    /\ requests' = requests \ {req}
    /\ UpdateDistanceStep(req)

(***************************************************************************)
(* app/map.tsx: the observer screen                                        *)
(***************************************************************************)
SetCoordinatesPost(id, coords) ==
  [kind |-> "set-pothole-coordinates", notificationId |-> id, coordinates |-> coords]

\* updateNotificationWithCoordinates
UpdateDistancePost(id, coords) ==
  [kind |-> "update-distance", notificationId |-> id, coordinates |-> coords]

calculatePotholeCoordinatesApp(vehicleCoord, nextCoord, distanceMeters, lateralMeters) ==
  IF vehicleCoord = NULL THEN NULL
  ELSE LET bearingPoint == IF nextCoord # NULL THEN nextCoord ELSE vehicleCoord
           bearing == calculateBearing(vehicleCoord, bearingPoint)
           forwardPoint == calculateDestination(vehicleCoord, bearing, distanceMeters)
           perpendicularBearing == IF lateralMeters >= 0
                                   THEN (bearing + 90) % 360
                                   ELSE (bearing - 90 + 360) % 360
       IN  calculateDestination(forwardPoint, perpendicularBearing, Abs(lateralMeters))

\* routeCoordinates[i + 1] || routeCoordinates[i] || vehiclePosition, i from 0
nextRoutePoint(route, index, position) ==
  IF index + 2 <= Len(route) THEN route[index + 2]
  ELSE IF index + 1 <= Len(route) THEN route[index + 1]
  ELSE position

HasId(list, id) == \E i \in 1..Len(list) : list[i].id = id

\* The values the handlers installed by the mount effects close over: the
\* state of the first render.
MountVehiclePosition == NULL
MountVehicleIndex == 0
MountRouteCoordinates == <<>>

\* handlePotholeDetected: [list, posts]
handlePotholeDetected(list, notification, position, index, route) ==
  LET given == notification.coordinates
      computed ==
        IF given = NULL /\ position # NULL
           /\ notification.distance_m # UNDEFINED /\ notification.distance_m > 0
        THEN calculatePotholeCoordinatesApp(position,
               nextRoutePoint(route, index, position),
               notification.distance_m, OrElse(notification.lateral_m, 0))
        ELSE given
      coords == IF computed = NULL /\ position # NULL THEN position ELSE computed
      notificationWithCoords == [notification EXCEPT !.coordinates = coords]
  IN  [list |-> IF HasId(list, notification.id)
                THEN [i \in 1..Len(list) |->
                        IF list[i].id = notification.id
                        THEN notificationWithCoords ELSE list[i]]
                ELSE Append(list, notificationWithCoords),
       posts |-> IF ~FalsyCoordinates(coords)
                 THEN {SetCoordinatesPost(notification.id, coords)}
                      \cup (IF position # NULL
                            THEN {UpdateDistancePost(notification.id, position)}
                            ELSE {})
                 ELSE {}]

\* an alert handler that adds the notification without looking for its id
handleExistingPotholeAlertAppending(list, notification) == Append(list, notification)

handleExistingPotholeAlert(list, notification) ==
  IF HasId(list, notification.id) THEN list ELSE Append(list, notification)

handleDistanceUpdate(list, notification) ==
  [i \in 1..Len(list) |->
     IF list[i].id = notification.id
     THEN [notification EXCEPT
             !.coordinates = IF notification.coordinates # NULL
                             THEN notification.coordinates
                             ELSE list[i].coordinates]
     ELSE list[i]]

\* the body of the polling interval's forEach: [list, posts]
RECURSIVE pollingInterval(_, _, _, _, _, _, _)
pollingInterval(updated, posts, newNotifications, k, currentPos, index, route) ==
  IF k > Len(newNotifications) THEN [list |-> updated, posts |-> posts]
  ELSE LET notification == newNotifications[k]
           existingIndex == IndexOfId(updated, notification.id)
       IN
       IF existingIndex = 0
       THEN LET given == notification.coordinates
                computed ==
                  IF given = NULL /\ currentPos # NULL
                     /\ notification.distance_m # UNDEFINED
                  THEN calculatePotholeCoordinatesApp(currentPos,
                         nextRoutePoint(route, index, currentPos),
                         notification.distance_m, OrElse(notification.lateral_m, 0))
                  ELSE given
                coords == IF computed = NULL /\ currentPos # NULL
                          THEN currentPos ELSE computed
            IN  pollingInterval(
                  Append(updated, [notification EXCEPT !.coordinates = coords]),
                  posts
                    \cup (IF coords # NULL
                          THEN {SetCoordinatesPost(notification.id, coords)} ELSE {})
                    \cup (IF currentPos # NULL
                          THEN {UpdateDistancePost(notification.id, currentPos)} ELSE {}),
                  newNotifications, k + 1, currentPos, index, route)
       ELSE IF updated[existingIndex].current_distance # notification.current_distance
       THEN pollingInterval(
              [updated EXCEPT ![existingIndex] =
                 [notification EXCEPT
                    !.coordinates = IF notification.coordinates # NULL
                                    THEN notification.coordinates
                                    ELSE updated[existingIndex].coordinates]],
              posts, newNotifications, k + 1, currentPos, index, route)
       ELSE pollingInterval(updated, posts, newNotifications, k + 1,
                            currentPos, index, route)

\* the effect that recalculates missing coordinates: [list, posts]
recalculateCoordinates(list, position, index, route) ==
  LET Needs(n) == n.coordinates = NULL /\ n.distance_m # UNDEFINED /\ n.distance_m > 0
      Coords(n) == calculatePotholeCoordinatesApp(position,
                     nextRoutePoint(route, index, position),
                     n.distance_m, OrElse(n.lateral_m, 0))
      Resolves(n) == Needs(n) /\ ~FalsyCoordinates(Coords(n))
  IN  IF Len(list) > 0 /\ position # NULL /\ Len(route) > 0
      THEN [list |-> [i \in 1..Len(list) |->
                        IF Resolves(list[i])
                        THEN [list[i] EXCEPT !.coordinates = Coords(list[i])]
                        ELSE list[i]],
            posts |-> {SetCoordinatesPost(list[i].id, Coords(list[i])) :
                         i \in {j \in 1..Len(list) : Resolves(list[j])}}]
      ELSE [list |-> list, posts |-> {}]

\* A render commits the new state of observer o; the effect above runs when
\* one of its dependencies changed.
Commit(o, list, posts, position, index, route) ==
  LET changed == \/ position # vehiclePosition[o]
                 \/ index # vehicleIndex[o]
                 \/ Len(route) # Len(routeCoordinates[o])
                 \/ Len(list) # Len(clientNotifications[o])
      effect == IF changed THEN recalculateCoordinates(list, position, index, route)
                ELSE [list |-> list, posts |-> {}]
  IN  /\ clientNotifications' = [clientNotifications EXCEPT ![o] = effect.list]
      /\ vehiclePosition' = [vehiclePosition EXCEPT ![o] = position]
      /\ vehicleIndex' = [vehicleIndex EXCEPT ![o] = index]
      /\ routeCoordinates' = [routeCoordinates EXCEPT ![o] = route]
      /\ requests' = requests \cup posts \cup effect.posts
      /\ Cardinality(requests') <= MaxRequests


\* getRoute: the route arrives, the vehicle is put on its first point and
\* startSynchronizedAnimation starts the animation interval
Route == <<Coord(100, 100), Coord(100, 500)>>

GetRoute(o) ==
  /\ pc[o] = "mounting"
  /\ pc' = [pc EXCEPT ![o] = "routed"]
  /\ Commit(o, clientNotifications[o], {}, Route[1], 0, Route)
  /\ UNCHANGED <<detector, potholes, notifications, clock, http, fsFault, ws, inbox, dismissed>>

\* initializeMap, after getRoute: GET /potholes replaces the notifications
existingPotholes(list) ==
  [i \in 1..Len(list) |->
     [id |-> list[i].id,
      distance_m |-> OrElse(list[i].distance_m, 0),
      lateral_m |-> OrElse(list[i].lateral_m, 0),
      coordinates |-> list[i].coordinates,
      vehicle |-> NULL,
      current_distance |-> 0,
      existing |-> TRUE,
      detection_count |-> OrElse(list[i].detection_count, 1),
      count_incremented |-> FALSE]]

LoadPotholes(o) ==
  /\ pc[o] = "routed"
  /\ pc' = [pc EXCEPT ![o] = "ready"]
  /\ Commit(o, existingPotholes(loadPotholes(potholes, fsFault)), {},
            vehiclePosition[o], vehicleIndex[o], routeCoordinates[o])
  /\ UNCHANGED <<detector, potholes, notifications, clock, http, fsFault, ws, inbox, dismissed>>

\* the animation interval as it would be with a pause check: it does not
\* advance while the screen shows a notification
AnimationTickPausing(o) ==
  LET coordinates == routeCoordinates[o]
      totalPoints == Len(coordinates)
      newIndex == IF vehicleIndex[o] >= totalPoints - 1 THEN 0 ELSE vehicleIndex[o] + 1
  IN  /\ totalPoints > 0
      /\ clientNotifications[o] = <<>>
      /\ Commit(o, clientNotifications[o], {}, coordinates[newIndex + 1], newIndex,
                coordinates)
      /\ UNCHANGED <<detector, potholes, notifications, clock, http, fsFault, pc, ws, inbox,
                     dismissed>>

\* one tick of the animation interval
AnimationTick(o) ==
  LET coordinates == routeCoordinates[o]
      totalPoints == Len(coordinates)
      newIndex == IF vehicleIndex[o] >= totalPoints - 1 THEN 0 ELSE vehicleIndex[o] + 1
  IN  /\ totalPoints > 0
      /\ Commit(o, clientNotifications[o], {}, coordinates[newIndex + 1], newIndex,
                coordinates)
      /\ UNCHANGED <<detector, potholes, notifications, clock, http, fsFault, pc, ws, inbox,
                     dismissed>>

\* One run of the polling interval whose GET /notifications succeeds.  The
\* request and the merge are one step, and the updaters passed to
\* setNotifications and setVehiclePosition run when they are dispatched (no
\* update is pending when the callback resumes), so the merge reads the
\* current vehiclePosition; vehicleIndex and routeCoordinates are the ones
\* the interval's closure captured at the first render.
Poll(o) ==
  LET merged == pollingInterval(clientNotifications[o], {}, notifications, 1,
                                vehiclePosition[o], MountVehicleIndex,
                                MountRouteCoordinates)
  IN  /\ Commit(o, merged.list, merged.posts, vehiclePosition[o], vehicleIndex[o],
                routeCoordinates[o])
      /\ UNCHANGED <<detector, potholes, notifications, clock, http, fsFault, pc, ws, inbox,
                     dismissed>>

\* ws.onmessage for the oldest undelivered push message
HandleMessage(o) ==
  LET message == Head(inbox[o])
      list == clientNotifications[o]
      handled ==
        CASE message.type = "pothole_detected" ->
               handlePotholeDetected(list, message.data, MountVehiclePosition,
                                     MountVehicleIndex, MountRouteCoordinates)
          [] message.type = "existing_pothole_alert" ->
               [list |-> handleExistingPotholeAlert(list, message.data), posts |-> {}]
          [] message.type \in {"distance_updated", "pothole_updated"} ->
               [list |-> handleDistanceUpdate(list, message.data), posts |-> {}]
  IN  /\ inbox[o] # <<>>
      /\ inbox' = [inbox EXCEPT ![o] = Tail(@)]
      /\ Commit(o, handled.list, handled.posts, vehiclePosition[o], vehicleIndex[o],
                routeCoordinates[o])
      /\ UNCHANGED <<detector, potholes, notifications, clock, http, fsFault, pc, ws, dismissed>>

\* the connection opens: the server adds the socket to its clients
WsOpen(o) ==
  /\ ws[o] = "connecting"
  /\ ws' = [ws EXCEPT ![o] = "open"]
  /\ UNCHANGED <<detector, potholes, notifications, clock, http, fsFault, requests, pc,
                 routeCoordinates, vehiclePosition, vehicleIndex,
                 clientNotifications, inbox, dismissed>>

\* a connection attempt fails: the socket reports an error and closes
WsFail(o) ==
  /\ ws[o] = "connecting"
  /\ ws' = [ws EXCEPT ![o] = "closed"]
  /\ UNCHANGED <<detector, potholes, notifications, clock, http, fsFault, requests, pc,
                 routeCoordinates, vehiclePosition, vehicleIndex,
                 clientNotifications, inbox, dismissed>>

\* the connection closes: what was not delivered is lost
WsClose(o) ==
  /\ ws[o] = "open"
  /\ ws' = [ws EXCEPT ![o] = "closed"]
  /\ inbox' = [inbox EXCEPT ![o] = <<>>]
  /\ UNCHANGED <<detector, potholes, notifications, clock, http, fsFault, requests, pc,
                 routeCoordinates, vehiclePosition, vehicleIndex,
                 clientNotifications, dismissed>>

\* the closing handshake starts: the socket is still among the server's
\* clients, its readyState is CLOSING
WsClosing(o) ==
  /\ ws[o] = "open"
  /\ ws' = [ws EXCEPT ![o] = "closing"]
  /\ UNCHANGED <<detector, potholes, notifications, clock, http, fsFault, requests, pc,
                 routeCoordinates, vehiclePosition, vehicleIndex,
                 clientNotifications, inbox, dismissed>>

\* the handshake ends: ws.on('close') removes the socket from the clients
WsClosed(o) ==
  /\ ws[o] = "closing"
  /\ ws' = [ws EXCEPT ![o] = "closed"]
  /\ inbox' = [inbox EXCEPT ![o] = <<>>]
  /\ UNCHANGED <<detector, potholes, notifications, clock, http, fsFault, requests, pc,
                 routeCoordinates, vehiclePosition, vehicleIndex,
                 clientNotifications, dismissed>>

\* a reconnect that is given up once the screen shows notifications
WsReconnectWhileEmpty(o) ==
  /\ ws[o] = "closed"
  /\ clientNotifications[o] = <<>>
  /\ ws' = [ws EXCEPT ![o] = "connecting"]
  /\ UNCHANGED <<detector, potholes, notifications, clock, http, fsFault, requests, pc,
                 routeCoordinates, vehiclePosition, vehicleIndex,
                 clientNotifications, inbox, dismissed>>

\* ws.onclose: setTimeout(connectWebSocket, 3000)
WsReconnect(o) ==
  /\ ws[o] = "closed"
  /\ ws' = [ws EXCEPT ![o] = "connecting"]
  /\ UNCHANGED <<detector, potholes, notifications, clock, http, fsFault, requests, pc,
                 routeCoordinates, vehiclePosition, vehicleIndex,
                 clientNotifications, inbox, dismissed>>

dismissNotification(list, id) == SelectSeq(list, LAMBDA n : n.id # id)

\* a dismissal that also deletes the catalog entry the notification shows
DismissDeleting(o) ==
  \E i \in 1..Len(clientNotifications[o]) :
    LET id == clientNotifications[o][i].id
        shown == clientNotifications[o][i].coordinates
    IN
    /\ id \notin dismissed[o]
    /\ Cardinality(dismissed[o]) < MaxDismiss
    /\ dismissed' = [dismissed EXCEPT ![o] = @ \cup {id}]
    /\ potholes' = SelectSeq(potholes, LAMBDA e : e.coordinates # shown)
    /\ Commit(o, dismissNotification(clientNotifications[o], id), {},
              vehiclePosition[o], vehicleIndex[o], routeCoordinates[o])
    /\ UNCHANGED <<detector, notifications, clock, http, fsFault, pc, ws, inbox>>

\* the dismiss button of a notification card
Dismiss(o) ==
  \E i \in 1..Len(clientNotifications[o]) :
    LET id == clientNotifications[o][i].id IN
    /\ id \notin dismissed[o]
    /\ Cardinality(dismissed[o]) < MaxDismiss
    /\ dismissed' = [dismissed EXCEPT ![o] = @ \cup {id}]
    /\ Commit(o, dismissNotification(clientNotifications[o], id), {},
              vehiclePosition[o], vehicleIndex[o], routeCoordinates[o])
    /\ UNCHANGED <<detector, potholes, notifications, clock, http, fsFault, pc, ws, inbox>>

\* the alert the distance update interval creates for a catalog entry
alertData(pothole, position) ==
  [id |-> pothole.id,
   distance_m |-> OrElse(pothole.distance_m, 0),
   lateral_m |-> OrElse(pothole.lateral_m, 0),
   coordinates |-> pothole.coordinates,
   vehicle |-> position,
   current_distance |-> calculateDistance(position, pothole.coordinates),
   existing |-> TRUE,
   detection_count |-> OrElse(pothole.detection_count, 1),
   count_incremented |-> FALSE]

\* One run of the distance update interval: it posts the vehicle position
\* for every notification that has a coordinate, asks the server for the
\* catalog entries nearby and appends an alert for each one within the alert
\* distance that the list does not hold.  The request and the append are one
\* step.  The interval is set again whenever the notifications or the vehicle
\* position change, so its closure holds the current ones.
DistanceUpdate(o) ==
  LET position == vehiclePosition[o]
      list == clientNotifications[o]
      posts == {UpdateDistancePost(list[i].id, position) :
                  i \in {j \in 1..Len(list) : list[j].coordinates # NULL}}
      nearby == getPotholesNearby(potholes, fsFault, position, NEARBY_RADIUS)
      alerts == SelectSeq(nearby,
                          LAMBDA pothole :
                            /\ calculateDistance(position, pothole.coordinates)
                                 <= ALERT_DISTANCE
                            /\ ~HasId(list, pothole.id))
      appended == list \o [i \in 1..Len(alerts) |-> alertData(alerts[i], position)]
  IN  /\ position # NULL
      /\ Len(routeCoordinates[o]) > 0
      /\ Commit(o, appended, posts, position, vehicleIndex[o], routeCoordinates[o])
      /\ UNCHANGED <<detector, potholes, notifications, clock, http, fsFault, pc, ws, inbox,
                     dismissed>>

(***************************************************************************)
(* Inputs of POST /webhook                                                 *)
(***************************************************************************)
Detection(d, x) == [d |-> d, x |-> x]

Payload(detections, coordinates, vehicleCoordinates, nextRouteCoordinate) ==
  [detections |-> detections, distance_m |-> UNDEFINED, lateral_m |-> UNDEFINED,
   coordinates |-> coordinates, vehicleCoordinates |-> vehicleCoordinates,
   nextRouteCoordinate |-> nextRouteCoordinate]

\* what the detector posts (send_batch): no telemetry, no coordinate
DetectorPayload == Payload(<<Detection(200, 0)>>, NULL, NULL, NULL)

\* a detection d ahead and x to the right of a vehicle at (100, 100) heading east
Telemetry(d, x) == Payload(<<Detection(d, x)>>, NULL, Coord(100, 100), Coord(100, 500))

\* a detection d ahead of a vehicle at (50, 0) heading north along the prime
\* meridian: sin(bearing) is exactly 0, so the coordinate has longitude 0
MeridianTelemetry(d) == Payload(<<Detection(d, 0)>>, NULL, Coord(50, 0), Coord(450, 0))

\* a detection with the detector's own coordinate, and telemetry
ExplicitPayload == Payload(<<Detection(200, 0)>>, Coord(100, 1000), Coord(100, 100),
                           Coord(100, 500))

Payloads == {DetectorPayload, Telemetry(300, 0)}

\* a detection with the detector's own coordinate and no telemetry
ExplicitOnlyPayload == Payload(<<Detection(200, 0)>>, Coord(100, 1000), NULL, NULL)

\* The long run: MainPayload resolves to (100, 400); the others resolve 1 cm
\* from it, 100 cm from it, 400 cm from it on the prime meridian, 600 cm from
\* it, or not at all, or carry the detector's own coordinate.
MainPayload == Telemetry(300, 0)
RunPayloads == {MainPayload, Telemetry(301, 0), Telemetry(200, 0),
                MeridianTelemetry(50), Telemetry(900, 0), DetectorPayload,
                ExplicitPayload, ExplicitOnlyPayload}

(***************************************************************************)
(* Pothole/main.cpp: RealtimeDistanceStreamer                              *)
(*                                                                         *)
(* detector.json is the content of the stack memory that holds the local   *)
(* array json of send_batch; it outlives the call as bytes that anything   *)
(* may overwrite.  std::thread copies its decayed arguments: for the array *)
(* that is a char*, and the std::string parameter of _post_json is built    *)
(* from it by the new thread.                                              *)
(***************************************************************************)
Unread == [unread |-> TRUE]
\* bytes that are no payload: a buffer half written or a reused stack frame
Indeterminate == [indeterminate |-> TRUE]

MaxFrames == 3

\* what a frame's detections are formatted to
FrameBodies == {<<Detection(200, 0)>>, <<Detection(250, 0), Detection(700, 0)>>}

detectorRest == <<potholes, notifications, clock, http, fsFault, requests, pc,
                  routeCoordinates, vehiclePosition, vehicleIndex,
                  clientNotifications, ws, inbox, dismissed>>

\* send_batch is entered: snprintf starts to fill json
SendBatchEnter ==
  /\ detector.pc = "idle"
  /\ detector.frame < MaxFrames
  /\ detector' = [detector EXCEPT !.pc = "building", !.frame = @ + 1,
                                  !.json = Indeterminate]
  /\ UNCHANGED detectorRest

\* the last snprintf is done: json holds the frame's payload
SendBatchBuilt ==
  \E detections \in FrameBodies :
    /\ detector.pc = "building"
    /\ detector' = [detector EXCEPT
                      !.pc = "built",
                      !.json = [frame |-> detector.frame, detections |-> detections]]
    /\ UNCHANGED detectorRest

\* std::thread(&_post_json, this, json).detach(): the thread gets the
\* address of json
SendBatchSpawn ==
  /\ detector.pc = "built"
  /\ detector' = [detector EXCEPT
                    !.pc = "spawned",
                    !.threads = Append(@, [built |-> detector.json, read |-> Unread])]
  /\ UNCHANGED detectorRest

\* send_batch returns: the lifetime of json ends
SendBatchReturn ==
  /\ detector.pc = "spawned"
  /\ detector' = [detector EXCEPT !.pc = "idle"]
  /\ UNCHANGED detectorRest

\* the main loop goes on and its calls reuse the stack of the returned call
StackReused ==
  /\ detector.pc = "idle"
  /\ detector.json # Indeterminate
  /\ detector' = [detector EXCEPT !.json = Indeterminate]
  /\ UNCHANGED detectorRest

\* thread t starts _post_json: its json_str is built from the address it was
\* given.  While the call that started it has not returned, that is the
\* payload; afterwards the read is of a dead object, and it gives the bytes
\* that are there or anything else.
PostJson(t) ==
  /\ t \in 1..Len(detector.threads)
  /\ detector.threads[t].read = Unread
  /\ \E bytes \in IF detector.pc = "spawned" /\ t = Len(detector.threads)
                  THEN {detector.json}
                  ELSE {detector.json, Indeterminate} :
       detector' = [detector EXCEPT !.threads[t].read = bytes]
  /\ UNCHANGED detectorRest

(***************************************************************************)
(* Specifications                                                          *)
(***************************************************************************)
Init ==
  /\ potholes = <<>>
  /\ notifications = <<>>
  /\ clock = 0
  /\ http = [op |-> "none"]
  /\ fsFault = "none"
  /\ requests = {}
  /\ pc = [o \in Observers |-> "mounting"]
  /\ routeCoordinates = [o \in Observers |-> <<>>]
  /\ vehiclePosition = [o \in Observers |-> NULL]
  /\ vehicleIndex = [o \in Observers |-> 0]
  /\ clientNotifications = [o \in Observers |-> <<>>]
  /\ ws = [o \in Observers |-> "connecting"]
  /\ inbox = [o \in Observers |-> <<>>]
  /\ dismissed = [o \in Observers |-> {}]
  /\ detector = [pc |-> "idle", frame |-> 0, json |-> Indeterminate, threads |-> <<>>]

Webhook ==
  \E detectionData \in Payloads :
    clock < MaxWebhooks /\ CanBroadcast /\ WebhookStep(detectionData)

\* Spec: the server and one observer screen with both of its channels
Screens == {"o1"}

Next ==
  \/ Webhook
  \/ SetPotholeCoordinates
  \/ UpdateDistance
  \/ \E o \in Screens : GetRoute(o)
  \/ \E o \in Screens : LoadPotholes(o)
  \/ \E o \in Screens : AnimationTick(o)
  \/ \E o \in Screens : Poll(o)
  \/ \E o \in Screens : HandleMessage(o)
  \/ \E o \in Screens : WsOpen(o)
  \/ \E o \in Screens : WsClose(o)
  \/ \E o \in Screens : WsReconnect(o)
  \/ \E o \in Screens : Dismiss(o)

Spec == Init /\ [][Next]_vars

\* The catalog under a long run of detections: webhook calls only, most of
\* them the same detection, at most MaxOdd of them another one.
MaxOdd == 2

OddIngests ==
  Cardinality({i \in 1..Len(notifications) :
                 notifications[i].coordinates # Coord(100, 400)})

CatalogIngest ==
  \E detectionData \in RunPayloads :
    /\ clock < MaxRun
    /\ detectionData = MainPayload \/ OddIngests < MaxOdd
    /\ WebhookStep(detectionData)

NextCatalog == CatalogIngest

SpecCatalog == Init /\ [][NextCatalog]_vars

\* Two observers of one server: Poller never connects its socket and learns
\* of notifications from GET /notifications alone; Pusher's socket is open
\* before the first detection and it learns of them from the messages alone.
Poller == "o1"
Pusher == "o2"

ConvergeWebhook ==
  \E detectionData \in Payloads :
    /\ clock < MaxWebhooks
    /\ ws[Pusher] = "open"
    /\ CanBroadcast
    /\ WebhookStep(detectionData)

NextConverge ==
  \/ ConvergeWebhook
  \/ SetPotholeCoordinates
  \/ UpdateDistance
  \/ \E o \in Observers : GetRoute(o)
  \/ \E o \in Observers : AnimationTick(o)
  \/ Poll(Poller)
  \/ WsOpen(Pusher)
  \/ HandleMessage(Pusher)

SpecConverge == Init /\ [][NextConverge]_vars

\* The server and one observer screen with detections that carry no
\* coordinate and no telemetry, one of them with forward distance 0: what
\* becomes of the notifications whose coordinate the observer has to derive.
ZeroDistancePayload == Payload(<<Detection(0, 0)>>, NULL, NULL, NULL)

PendingPayloads == {DetectorPayload, ZeroDistancePayload}

PendingWebhook ==
  \E detectionData \in PendingPayloads :
    clock < MaxWebhooks /\ CanBroadcast /\ WebhookStep(detectionData)

NextPending ==
  \/ PendingWebhook
  \/ SetPotholeCoordinates
  \/ UpdateDistance
  \/ \E o \in Screens : GetRoute(o)
  \/ \E o \in Screens : AnimationTick(o)
  \/ \E o \in Screens : Poll(o)
  \/ \E o \in Screens : HandleMessage(o)
  \/ \E o \in Screens : WsOpen(o)

SpecPending == Init /\ [][NextPending]_vars

\* The catalog while writes to data/potholes.json fail for a time
\* (fs.writeFileSync throws, savePotholes returns false): webhook calls with
\* telemetry, resolving to (100, 400), (100, 300) and (100, 1000).
MaxFaultRun == 6

FaultPayloads == {MainPayload, Telemetry(200, 0), Telemetry(900, 0)}

FaultIngest ==
  \E detectionData \in FaultPayloads :
    clock < MaxFaultRun /\ WebhookStep(detectionData)

WriteFails ==
  /\ fsFault = "none"
  /\ fsFault' = "write"
  /\ UNCHANGED <<detector, potholes, notifications, clock, http, requests, pc,
                 routeCoordinates, vehiclePosition, vehicleIndex,
                 clientNotifications, ws, inbox, dismissed>>

WriteRecovers ==
  /\ fsFault = "write"
  /\ fsFault' = "none"
  /\ UNCHANGED <<detector, potholes, notifications, clock, http, requests, pc,
                 routeCoordinates, vehiclePosition, vehicleIndex,
                 clientNotifications, ws, inbox, dismissed>>

NextFaults == FaultIngest \/ WriteFails \/ WriteRecovers

SpecFaults == Init /\ [][NextFaults]_vars

\* Ingestion with two observers that connect, fall behind, close and
\* reconnect as they like: the webhook is not held back by what waits for
\* them.
MaxIngest == 3

IngestWebhook ==
  \E detectionData \in Payloads :
    clock < MaxIngest /\ WebhookStep(detectionData)

NextIngest ==
  \/ IngestWebhook
  \/ \E o \in Observers : WsOpen(o)
  \/ \E o \in Observers : WsClosing(o)
  \/ \E o \in Observers : WsClosed(o)
  \/ \E o \in Observers : WsReconnect(o)
  \/ \E o \in Observers : HandleMessage(o)

SpecIngest == Init /\ [][NextIngest]_vars

\* The server and one observer screen with telemetry that gives no heading:
\* the vehicle position without a next route point, or with a next route
\* point equal to the position.
StationaryTelemetry(d) == Payload(<<Detection(d, 0)>>, NULL, Coord(100, 100), NULL)

SamePointTelemetry(d) ==
  Payload(<<Detection(d, 0)>>, NULL, Coord(100, 100), Coord(100, 100))

ResolvePayloads == {DetectorPayload, Telemetry(300, 0), StationaryTelemetry(300),
                    SamePointTelemetry(200)}

ResolveWebhook ==
  \E detectionData \in ResolvePayloads :
    clock < MaxWebhooks /\ CanBroadcast /\ WebhookStep(detectionData)

NextResolve ==
  \/ ResolveWebhook
  \/ SetPotholeCoordinates
  \/ UpdateDistance
  \/ \E o \in Screens : GetRoute(o)
  \/ \E o \in Screens : AnimationTick(o)
  \/ \E o \in Screens : Poll(o)
  \/ \E o \in Screens : HandleMessage(o)
  \/ \E o \in Screens : WsOpen(o)

SpecResolve == Init /\ [][NextResolve]_vars

\* The server and one observer screen whose distance update interval runs
\* and whose push channel never opens: what the server changes reaches the
\* screen through polling.  One detection is ingested, with or without
\* telemetry; the vehicle drives from the first route point to the last and
\* rests there.  The interval timers fire and the server answers every
\* request it was sent: weak fairness for these.
MaxTracked == 1

TrackWebhook ==
  \E detectionData \in Payloads :
    clock < MaxTracked /\ WebhookStep(detectionData)

DriveTick(o) == vehicleIndex[o] = 0 /\ AnimationTick(o)

\* the update-distance requests the screen can send, and the server
\* answering one of them
TrackRequests ==
  {UpdateDistancePost(<<kind, n>>, Route[k]) :
     kind \in {"notification", "pothole"}, n \in 1..MaxTracked, k \in 1..Len(Route)}

ServeUpdateDistance(req) ==
  /\ req \in requests
  /\ requests' = requests \ {req}
  /\ UpdateDistanceStep(req)

NextDistance ==
  \/ TrackWebhook
  \/ SetPotholeCoordinates
  \/ UpdateDistance
  \/ \E o \in Screens : GetRoute(o)
  \/ \E o \in Screens : LoadPotholes(o)
  \/ \E o \in Screens : DriveTick(o)
  \/ \E o \in Screens : DistanceUpdate(o)
  \/ \E o \in Screens : Poll(o)

SpecDistance ==
  /\ Init
  /\ [][NextDistance]_vars
  /\ WF_vars(SetPotholeCoordinates)
  /\ \A req \in TrackRequests : WF_vars(ServeUpdateDistance(req))
  /\ \A o \in Screens :
       /\ WF_vars(DistanceUpdate(o))
       /\ WF_vars(Poll(o))

\* The server and two mounted observer screens that wait for their route,
\* with push channels that close and connection attempts that fail.  The
\* reconnect timer fires: weak fairness.  The server is reachable, so an
\* observer that keeps trying gets its connection: strong fairness for the
\* opening.
ChannelWebhook ==
  \E detectionData \in Payloads :
    clock < MaxWebhooks /\ CanBroadcast /\ WebhookStep(detectionData)

NextChannel ==
  \/ ChannelWebhook
  \/ \E o \in Observers : Poll(o)
  \/ \E o \in Observers : HandleMessage(o)
  \/ \E o \in Observers : WsOpen(o)
  \/ \E o \in Observers : WsFail(o)
  \/ \E o \in Observers : WsClose(o)
  \/ \E o \in Observers : WsReconnect(o)

SpecChannel ==
  /\ Init
  /\ [][NextChannel]_vars
  /\ \A o \in Observers : WF_vars(WsReconnect(o)) /\ SF_vars(WsOpen(o))

\* SpecReject: the server under requests of every kind, well-formed or not,
\* while an observer's socket opens and closes (what was pushed to it is
\* dropped with the connection).
RequestIds == {NoId, <<"pothole", 1>>} \cup {<<"notification", n>> : n \in 1..MaxWebhooks}

NonFinite == {Coord(Infinity, 100)}

DistanceRequests ==
  {UpdateDistancePost(id, coordinates) :
     id \in RequestIds, coordinates \in {NULL, Coord(100, 100)} \cup NonFinite}

CoordinateRequests ==
  {SetCoordinatesPost(id, coordinates) :
     id \in RequestIds, coordinates \in {NULL, Coord(100, 400)} \cup NonFinite}

PostUpdateDistance ==
  \E req \in DistanceRequests : UpdateDistanceStep(req) /\ UNCHANGED requests

PostSetCoordinates ==
  \E req \in CoordinateRequests : SetPotholeCoordinatesStep(req) /\ UNCHANGED requests

NextReject ==
  \/ Webhook
  \/ PostUpdateDistance
  \/ PostSetCoordinates
  \/ \E o \in Screens : WsOpen(o)
  \/ \E o \in Screens : WsClose(o)
  \/ \E o \in Screens : WsReconnect(o)

SpecReject == Init /\ [][NextReject]_vars

\* SpecNearby: the catalog filled by detections around the route, and
\* queries for the entries near a point.
MaxNearby == 3

NearbyPayloads == {Telemetry(300, 0), Telemetry(900, 0), Telemetry(300, 200)}

NearbyWebhook ==
  \E detectionData \in NearbyPayloads : clock < MaxNearby /\ WebhookStep(detectionData)

QueryCoordinates == {Coord(100, 400), Coord(100, 1000), Coord(0, 400)}

QueryRadii == {100, 500, 1000}

GetPotholesNearby ==
  \E coordinates \in QueryCoordinates \cup {NULL}, radius \in QueryRadii :
    GetPotholesNearbyStep(coordinates, radius)

NextNearby == NearbyWebhook \/ GetPotholesNearby

SpecNearby == Init /\ [][NextNearby]_vars

\* SpecStore: detections at, within and beyond the duplicate threshold of
\* one another, while reading the catalog file fails and recovers.
MaxStore == 4

StorePayloads ==
  {Telemetry(300, 0), Telemetry(800, 0), Telemetry(801, 0), Telemetry(1301, 0)}

StoreIngest ==
  \E detectionData \in StorePayloads :
    clock < MaxStore /\ WebhookStep(detectionData)

\* existsSync, readFileSync or JSON.parse throws
ReadFails ==
  /\ fsFault = "none"
  /\ fsFault' = "read"
  /\ UNCHANGED <<detector, potholes, notifications, clock, http, requests, pc,
                 routeCoordinates, vehiclePosition, vehicleIndex,
                 clientNotifications, ws, inbox, dismissed>>

ReadRecovers ==
  /\ fsFault = "read"
  /\ fsFault' = "none"
  /\ UNCHANGED <<detector, potholes, notifications, clock, http, requests, pc,
                 routeCoordinates, vehiclePosition, vehicleIndex,
                 clientNotifications, ws, inbox, dismissed>>

NextStore ==
  \/ StoreIngest
  \/ ReadFails
  \/ ReadRecovers

SpecStore == Init /\ [][NextStore]_vars

\* SpecBatch: the detector posts the detections of a frame as one event,
\* a frame with one pothole or with two; an observer listens.
MaxBatch == 3

\* a frame with two tracked potholes, with and without telemetry
BatchPayload == Payload(<<Detection(250, 0), Detection(700, 0)>>, NULL, NULL, NULL)

BatchTelemetry ==
  Payload(<<Detection(350, 0), Detection(1200, 0)>>, NULL, Coord(100, 100), Coord(100, 500))

BatchPayloads == {DetectorPayload, BatchPayload, BatchTelemetry}

BatchWebhook ==
  \E detectionData \in BatchPayloads :
    clock < MaxBatch /\ CanBroadcast /\ WebhookStep(detectionData)

NextBatch ==
  \/ BatchWebhook
  \/ \E o \in Screens : WsOpen(o)
  \/ \E o \in Screens : WsClose(o)
  \/ \E o \in Screens : WsReconnect(o)
  \/ \E o \in Screens : HandleMessage(o)

SpecBatch == Init /\ [][NextBatch]_vars

\* SpecTeardown: the push channel and the polling interval of screens that
\* are torn down at some time.
\* The cleanups of the mount effect and of the polling effect: the intervals
\* are cleared and wsRef.current.close() is called, which ends an open or
\* connecting socket with a close event; the server forgets the socket.
Unmount(o) ==
  /\ pc[o] # "unmounted"
  /\ pc' = [pc EXCEPT ![o] = "unmounted"]
  /\ ws' = [ws EXCEPT ![o] = IF @ \in {"open", "connecting"} THEN "closed" ELSE @]
  /\ inbox' = [inbox EXCEPT ![o] = <<>>]
  /\ UNCHANGED <<detector, potholes, notifications, clock, http, fsFault, requests,
                 routeCoordinates, vehiclePosition, vehicleIndex,
                 clientNotifications, dismissed>>

\* the polling interval runs until it is cleared
MountedPoll(o) == pc[o] # "unmounted" /\ Poll(o)

MountedMessage(o) == pc[o] # "unmounted" /\ HandleMessage(o)

\* a message for a screen that is gone: its state updates have no effect
UnmountedMessage(o) ==
  /\ pc[o] = "unmounted"
  /\ inbox[o] # <<>>
  /\ inbox' = [inbox EXCEPT ![o] = Tail(@)]
  /\ UNCHANGED <<detector, potholes, notifications, clock, http, fsFault, requests, pc,
                 routeCoordinates, vehiclePosition, vehicleIndex,
                 clientNotifications, ws, dismissed>>

NextTeardown ==
  \/ ChannelWebhook
  \/ \E o \in Observers : Unmount(o)
  \/ \E o \in Observers : MountedPoll(o)
  \/ \E o \in Observers : MountedMessage(o)
  \/ \E o \in Observers : UnmountedMessage(o)
  \/ \E o \in Observers : WsOpen(o)
  \/ \E o \in Observers : WsFail(o)
  \/ \E o \in Observers : WsClose(o)
  \/ \E o \in Observers : WsReconnect(o)

SpecTeardown == Init /\ [][NextTeardown]_vars

\* SpecDetector: the detector sends the frames of a video one after the
\* other; every frame's post runs in a thread of its own.
NextDetector ==
  \/ SendBatchEnter
  \/ SendBatchBuilt
  \/ SendBatchSpawn
  \/ SendBatchReturn
  \/ StackReused
  \/ \E t \in 1..MaxFrames : PostJson(t)

SpecDetector == Init /\ [][NextDetector]_vars

(***************************************************************************)
(* Properties of the catalog                                               *)
(***************************************************************************)
\* the ingest that a step of the server has just registered
Ingested == notifications'[Len(notifications')]

WebhookTaken == clock' # clock

\* A detection qualifies for an entry when its resolved coordinate lies
\* within the duplicate radius of the entry's and farther than the noise
\* radius from it.
Qualifies(coordinates, entry) ==
  /\ coordinates # NULL
  /\ distanceCalculator(coordinates, entry.coordinates) <= DUPLICATE_THRESHOLD_METERS
  /\ distanceCalculator(coordinates, entry.coordinates) > TOO_CLOSE_THRESHOLD_METERS

\* q: the creating detection and the qualifying detections ingested after it
\* (an entry is stamped with the clock value of the ingest that created it)
QualifyingDetections(entry) ==
  Cardinality({i \in entry.detected_at..Len(notifications) :
                 \/ i = entry.detected_at
                 \/ Qualifies(notifications[i].coordinates, entry)})

\* C1: after q qualifying detections of one pothole, the creating one
\* included, the entry's detection_count is 1 + floor(q / 10), and the
\* detections of that pothole are gathered in one entry.
C1_HysteresisLaw ==
  /\ \A j \in 1..Len(potholes) :
       potholes[j].detection_count =
         1 + (QualifyingDetections(potholes[j]) \div DETECTIONS_PER_COUNT_INCREMENT)
  /\ \A j, k \in 1..Len(potholes) :
       j # k => distanceCalculator(potholes[j].coordinates, potholes[k].coordinates)
                  > DUPLICATE_THRESHOLD_METERS

\* the run in which the law fails: a qualifying detection on the meridian was
\* ingested and the tenth qualifying detection did not raise the count
C1_DroppedDetection ==
  \E j \in 1..Len(potholes) :
    /\ QualifyingDetections(potholes[j]) = DETECTIONS_PER_COUNT_INCREMENT
    /\ potholes[j].detection_count = 1
    /\ \E i \in 1..Len(notifications) :
         /\ Qualifies(notifications[i].coordinates, potholes[j])
         /\ FalsyCoordinates(notifications[i].coordinates)

FarFromEveryEntry(coordinates) ==
  \A j \in 1..Len(potholes) :
    distanceCalculator(coordinates, potholes[j].coordinates) > DUPLICATE_THRESHOLD_METERS

\* C2: an ingest whose resolved coordinate is farther than the duplicate
\* radius from every entry creates exactly one entry, at that coordinate; an
\* ingest that resolves within the radius of an entry creates none.  Every
\* webhook handler runs to completion before the next one starts, so the
\* steps of the model are the interleavings there are.
C2_NoDuplicateCreation ==
  [][(WebhookTaken /\ Ingested.coordinates # NULL) =>
       IF FarFromEveryEntry(Ingested.coordinates)
       THEN /\ Len(potholes') = Len(potholes) + 1
            /\ SubSeq(potholes', 1, Len(potholes)) = potholes
            /\ potholes'[Len(potholes')].coordinates = Ingested.coordinates
       ELSE Len(potholes') = Len(potholes)]_vars

\* a resolved detection was ingested and no entry lies within the duplicate
\* radius of it
C2_ResolvedWithoutEntry ==
  \E i \in 1..Len(notifications) :
    /\ notifications[i].coordinates # NULL
    /\ FarFromEveryEntry(notifications[i].coordinates)

\* C7: an entry's coordinate is the one of the detection that created it: a
\* step changes nothing of an entry but detection_count, pending_detections
\* and updated_at, whichever detections match it.
C7_EntryCoordinateFixed ==
  [][\A j \in 1..Len(potholes) :
       \A k \in 1..Len(potholes') :
         potholes'[k].id = potholes[j].id
           => potholes'[k] = [potholes[j] EXCEPT
                                !.detection_count = potholes'[k].detection_count,
                                !.pending_detections = potholes'[k].pending_detections,
                                !.updated_at = potholes'[k].updated_at]]_vars

\* an entry was matched by later detections at other coordinates, often
\* enough to raise its count
C7_EntryMatched ==
  \E j \in 1..Len(potholes) :
    /\ potholes[j].detection_count = 2
    /\ \E i \in 1..Len(notifications) :
         /\ Qualifies(notifications[i].coordinates, potholes[j])
         /\ potholes[j].updated_at >= i
         /\ i > potholes[j].detected_at

\* the noise radius of the specification, 0.02 m
NOISE_RADIUS == 2

\* C8: an ingest that resolves within the noise radius of an entry leaves
\* that entry's detection_count and pending_detections as they were.
C8_NoiseNeverCounts ==
  [][(WebhookTaken /\ Ingested.coordinates # NULL) =>
       \A j \in 1..Len(potholes) :
         distanceCalculator(Ingested.coordinates, potholes[j].coordinates) <= NOISE_RADIUS
           => /\ potholes'[j].detection_count = potholes[j].detection_count
              /\ potholes'[j].pending_detections = potholes[j].pending_detections]_vars

\* noise repeats were ingested, at the entry's coordinate and 1 cm from it,
\* and the entry still has its first count and buffer
C8_NoiseIngested ==
  /\ Len(potholes) = 1
  /\ potholes[1].coordinates = Coord(100, 400)
  /\ potholes[1].detection_count = 1
  /\ potholes[1].pending_detections = 1
  /\ \E i, k \in 2..Len(notifications) :
       /\ notifications[i].coordinates = Coord(100, 400)
       /\ notifications[k].coordinates = Coord(100, 401)
  /\ http.isDuplicate /\ ~http.countIncremented

\* C9: every webhook call registers exactly one more notification, under a
\* new id, whether or not it resolves a coordinate and whatever the catalog
\* says, and keeps the ones registered before.
C9_OneMorePerIngest ==
  [][WebhookTaken =>
       /\ Len(notifications') = Len(notifications) + 1
       /\ SubSeq(notifications', 1, Len(notifications)) = notifications
       /\ \A i \in 1..Len(notifications) : notifications[i].id # Ingested.id]_vars

\* unresolved, new-entry, matched and noise ingests have all been registered
C9_EveryVerdictIngested ==
  /\ \E i \in 1..Len(notifications) : notifications[i].coordinates = NULL
  /\ \E j \in 1..Len(potholes) :
       /\ potholes[j].pending_detections = 2
       /\ \E i \in 1..Len(notifications) :
            /\ i > potholes[j].detected_at
            /\ notifications[i].coordinates = potholes[j].coordinates
  /\ Len(notifications) = clock
  /\ http.isDuplicate

\* C10: a detection that carries an explicit coordinate is registered with
\* exactly that coordinate; telemetry does not overwrite it.
C10_ExplicitCoordinateWins ==
  [][\A detectionData \in RunPayloads :
       (detectionData.coordinates # NULL /\ WebhookStep(detectionData))
         => Ingested.coordinates = detectionData.coordinates]_vars

\* the detection with the explicit coordinate (100, 1000) and telemetry was
\* registered at the dead-reckoned coordinate (100, 300)
C10_ExplicitOverwritten ==
  /\ http.op = "webhook"
  /\ Len(notifications) > 0
  /\ notifications[Len(notifications)].coordinates = Coord(100, 300)
  /\ notifications[Len(notifications)].distance_m = 200
  /\ \A i \in 1..Len(notifications) : notifications[i].coordinates # Coord(100, 1000)

(***************************************************************************)
(* Properties of the notifications                                         *)
(***************************************************************************)
\* C4: once a notification's coordinate is resolved it never changes, in
\* the server's live set and in every observer's copy of it.
C4_CoordinateImmutable ==
  [][/\ \A i \in 1..Len(notifications) :
          notifications[i].coordinates # NULL
            => /\ i <= Len(notifications')
               /\ notifications'[i].coordinates = notifications[i].coordinates
     /\ \A o \in Observers :
          \A i \in 1..Len(clientNotifications[o]) :
            \A k \in 1..Len(clientNotifications'[o]) :
              (/\ clientNotifications[o][i].coordinates # NULL
               /\ clientNotifications'[o][k].id = clientNotifications[o][i].id)
                => clientNotifications'[o][k].coordinates
                     = clientNotifications[o][i].coordinates]_vars

\* a request to set another coordinate on a notification whose coordinate is
\* resolved is in flight
C4_SecondCoordinatePosted ==
  \E req \in requests :
    /\ req.kind = "set-pothole-coordinates"
    /\ \E i \in 1..Len(notifications) :
         /\ notifications[i].id = req.notificationId
         /\ notifications[i].coordinates # NULL
         /\ notifications[i].coordinates # req.coordinates

\* C5: a dismissed notification does not come back: no later event puts a
\* notification with a dismissed id on the screen again.
C5_DismissedStaysGone ==
  \A o \in Observers :
    \A id \in dismissed[o] : ~HasId(clientNotifications[o], id)

\* the observer shows a notification it dismissed, and the server still
\* holds it
C5_DismissedShownAgain ==
  \E o \in Observers :
    \E id \in dismissed[o] :
      HasId(clientNotifications[o], id) /\ HasId(notifications, id)

\* C6: dismissing a notification changes no catalog entry.
C6_DismissLeavesCatalog ==
  [][(\E o \in Observers : dismissed'[o] # dismissed[o]) => potholes' = potholes]_vars

\* an observer dismissed a notification whose detection matched an entry
\* that was in the catalog before it, and the entry is there
C6_MatchedDismissed ==
  \E o \in Observers :
    \E id \in dismissed[o] :
      \E i \in 1..Len(notifications) :
        /\ notifications[i].id = id
        /\ ~HasId(clientNotifications[o], id)
        /\ \E j \in 1..Len(potholes) :
             /\ potholes[j].detected_at < i
             /\ notifications[i].coordinates # NULL
             /\ distanceCalculator(notifications[i].coordinates, potholes[j].coordinates)
                  <= DUPLICATE_THRESHOLD_METERS

(***************************************************************************)
(* Properties of two observers                                             *)
(***************************************************************************)
\* what the convergence contract compares: the ids and, for each id, the
\* coordinate, the current distance and the catalog verdict
LiveSet(list) ==
  {[id |-> list[i].id,
    coordinates |-> list[i].coordinates,
    current_distance |-> list[i].current_distance,
    existing |-> list[i].existing,
    detection_count |-> list[i].detection_count,
    count_incremented |-> list[i].count_incremented] : i \in 1..Len(list)}

\* No mutation is under way and the polling interval has elapsed since the
\* last one: no request and no message is in flight, and another poll would
\* change nothing.
Settled ==
  /\ requests = {}
  /\ inbox[Pusher] = <<>>
  /\ ws[Pusher] = "open"
  /\ pollingInterval(clientNotifications[Poller], {}, notifications, 1,
                     vehiclePosition[Poller], MountVehicleIndex,
                     MountRouteCoordinates).list = clientNotifications[Poller]

\* C3: for any ingest sequence, a poll-only observer and a push-only
\* observer hold the same live set one polling interval after the last
\* mutation.
C3_Convergence ==
  Settled => LiveSet(clientNotifications[Poller]) = LiveSet(clientNotifications[Pusher])

\* settled, both observers have their route and vehicle and hold every
\* notification of the server, and their live sets differ
C3_SettledApart ==
  /\ Settled
  /\ \A o \in Observers : pc[o] = "routed" /\ vehiclePosition[o] # NULL
  /\ Len(notifications) > 0
  /\ \A i \in 1..Len(notifications) :
       /\ HasId(clientNotifications[Poller], notifications[i].id)
       /\ HasId(clientNotifications[Pusher], notifications[i].id)
  /\ LiveSet(clientNotifications[Poller]) # LiveSet(clientNotifications[Pusher])

(***************************************************************************)
(* Properties of coordinate resolution                                     *)
(***************************************************************************)
\* a telemetry tick of observer o at which vehicle position and route are
\* known
TelemetryTick(o) ==
  /\ vehiclePosition'[o] # vehiclePosition[o]
  /\ vehiclePosition'[o] # NULL
  /\ Len(routeCoordinates'[o]) > 0

\* C11: a notification an observer holds without coordinate gets one at the
\* next telemetry tick at which vehicle position and route are known,
\* whatever its forward distance: after such a tick the observer holds no
\* notification without coordinate.
C11_ResolvedAtNextTick ==
  [][\A o \in Observers :
       TelemetryTick(o) =>
         \A i \in 1..Len(clientNotifications'[o]) :
           clientNotifications'[o][i].coordinates # NULL]_vars

\* the vehicle has its route and has moved, nothing is in flight, and the
\* observer still holds a notification with forward distance 0 and no
\* coordinate
C11_StaysPending ==
  \E o \in Observers :
    /\ vehicleIndex[o] = 1
    /\ Len(routeCoordinates[o]) > 0
    /\ requests = {}
    /\ inbox[o] = <<>>
    /\ \E i \in 1..Len(clientNotifications[o]) :
         /\ clientNotifications[o][i].coordinates = NULL
         /\ clientNotifications[o][i].distance_m = 0

\* C12: whenever a notification's coordinate is resolved, at ingest or
\* later through POST /set-pothole-coordinates, the catalog is merged with
\* it: some entry lies within the duplicate radius of the coordinate of
\* every notification that has one.
C12_ResolvedReachesCatalog ==
  \A i \in 1..Len(notifications) :
    notifications[i].coordinates # NULL
      => \E j \in 1..Len(potholes) :
           distanceCalculator(notifications[i].coordinates, potholes[j].coordinates)
             <= DUPLICATE_THRESHOLD_METERS

\* the server has just accepted a coordinate an observer derived, and the
\* catalog has no entry within the duplicate radius of it
C12_LateCoordinateNotMerged ==
  /\ http.op = "set-pothole-coordinates"
  /\ http.status = 200
  /\ \E i \in 1..Len(notifications) :
       /\ notifications[i].coordinates # NULL
       /\ FarFromEveryEntry(notifications[i].coordinates)

(***************************************************************************)
(* Properties of persistence                                               *)
(***************************************************************************)
\* the entry the storage call of the webhook step just taken returned to
\* the handler (NULL when it returned none): addPothole's pothole on the
\* new-entry path, incrementDetectionCount's on the matched path
ReturnedEntry ==
  LET coordinates == Ingested.coordinates
      existing == findExistingPothole(potholes, fsFault, coordinates)
  IN  IF coordinates = NULL THEN NULL
      ELSE IF existing = NULL
      THEN LET result == addPothole(potholes, fsFault, clock',
                                    [coordinates |-> coordinates,
                                     distance_m |-> Ingested.distance_m,
                                     lateral_m |-> Ingested.lateral_m])
           IN  IF result.success THEN result.pothole ELSE NULL
      ELSE IF distanceCalculator(coordinates, existing.coordinates)
                > TOO_CLOSE_THRESHOLD_METERS
      THEN incrementDetectionCount(potholes, fsFault, clock', existing.id,
                                   coordinates).pothole
      ELSE NULL

\* C13: when addPothole or incrementDetectionCount returns an entry, the
\* file already holds that entry, with the same coordinate, detection_count
\* and pending_detections: reloading the file right after the call gives
\* the returned state.
C13_WriteThrough ==
  [][(WebhookTaken /\ ReturnedEntry # NULL) =>
       \E j \in 1..Len(potholes') :
         /\ potholes'[j].id = ReturnedEntry.id
         /\ potholes'[j].coordinates = ReturnedEntry.coordinates
         /\ potholes'[j].detection_count = ReturnedEntry.detection_count
         /\ potholes'[j].pending_detections = ReturnedEntry.pending_detections]_vars

\* a matched detection was answered with count_incremented while writes
\* fail, and the file holds the entry as it was before
C13_IncrementNotWritten ==
  /\ fsFault = "write"
  /\ http.op = "webhook"
  /\ http.isDuplicate
  /\ http.countIncremented
  /\ \E j \in 1..Len(potholes) :
       /\ potholes[j].id = http.existingPotholeId
       /\ potholes[j].updated_at < clock
       /\ potholes[j].pending_detections = 1

\* C14: a failed catalog write loses nothing: the entry created or
\* incremented during the outage is the one later detections see.  Every
\* resolved detection has, within the duplicate radius, an entry no younger
\* than itself, and every entry's count and buffer account for all its
\* qualifying detections.
C14_OutageLosesNothing ==
  /\ \A i \in 1..Len(notifications) :
       notifications[i].coordinates # NULL
         => \E j \in 1..Len(potholes) :
              /\ potholes[j].detected_at <= i
              /\ distanceCalculator(notifications[i].coordinates,
                                    potholes[j].coordinates)
                   <= DUPLICATE_THRESHOLD_METERS
  /\ \A j \in 1..Len(potholes) :
       DETECTIONS_PER_COUNT_INCREMENT * (potholes[j].detection_count - 1)
         + potholes[j].pending_detections = QualifyingDetections(potholes[j])

\* writes work again, and the entry for a pothole first detected during the
\* outage was created by a later detection, with a fresh count and buffer
C14_EntryCreatedAgain ==
  /\ fsFault = "none"
  /\ \E j \in 1..Len(potholes) :
       /\ potholes[j].detection_count = 1
       /\ potholes[j].pending_detections = 1
       /\ \E i \in 1..(potholes[j].detected_at - 1) :
            Qualifies(notifications[i].coordinates, potholes[j])

Pushed(o) == SubSeq(inbox'[o], Len(inbox[o]) + 1, Len(inbox'[o]))

\* C16: whatever the observers' sockets are doing and however much waits
\* for them, a webhook call can be taken, registers its notification and
\* answers 200; its message goes to the sockets that are OPEN and to no
\* other, and what waits for an observer is not touched.
C16_ObserversNeverBlock ==
  [][/\ clock < MaxIngest => ENABLED IngestWebhook
     /\ WebhookTaken =>
          /\ Len(notifications') = Len(notifications) + 1
          /\ http'.op = "webhook" /\ http'.status = 200 /\ http'.success
          /\ \A o \in Observers :
               /\ Len(inbox'[o]) = Len(inbox[o]) + (IF ws[o] = "open" THEN 1 ELSE 0)
               /\ SubSeq(inbox'[o], 1, Len(inbox[o])) = inbox[o]
               /\ ws'[o] = ws[o]
               /\ clientNotifications'[o] = clientNotifications[o]]_vars

\* every webhook call was taken while one observer had unhandled messages
\* and the other was closing or closed, and the first got every message
C16_IngestedPastObservers ==
  /\ clock = MaxIngest
  /\ Len(notifications) = MaxIngest
  /\ \E o, p \in Observers :
       /\ Len(inbox[o]) = MaxIngest
       /\ ws[p] \in {"closing", "closed"}
       /\ inbox[p] = <<>>

(***************************************************************************)
(* Properties of the animation                                             *)
(***************************************************************************)
\* isPlaying is set by startSynchronizedAnimation, which getRoute calls, and
\* nothing in the screen clears it
isPlaying(o) == pc[o] # "mounting"

C18_KindIsVerdict ==
  [][(WebhookTaken /\ http'.success) =>
       \A o \in Observers :
         ws[o] = "open" =>
           /\ Len(Pushed(o)) = 1
           /\ Pushed(o)[1].data.id = Ingested.id
           /\ Pushed(o)[1].type = "existing_pothole_alert"
                <=> /\ Ingested.coordinates # NULL
                    /\ ~FarFromEveryEntry(Ingested.coordinates)
           /\ Pushed(o)[1].type = "pothole_detected"
                <=> Len(potholes') = Len(potholes) + 1]_vars

\* an open socket was sent pothole_detected for a detection without
\* coordinate, and the catalog is still empty
C18_DetectedWithoutEntry ==
  \E o \in Observers :
    /\ ws[o] = "open"
    /\ potholes = <<>>
    /\ inbox[o] # <<>>
    /\ inbox[o][Len(inbox[o])].type = "pothole_detected"
    /\ inbox[o][Len(inbox[o])].data.coordinates = NULL
    /\ inbox[o][Len(inbox[o])].data.id = <<"notification", clock>>

\* C19: every successful response of POST /webhook carries success = true
\* and the id of the notification that call registered, on the
\* new-detection path and on the existing-match path.
C19_ResponseCarriesId ==
  (http.op = "webhook" /\ http.status = 200) =>
    /\ http.success
    /\ http.notificationId = notifications[Len(notifications)].id

\* the last webhook call matched an entry, registered a notification and
\* answered without a notification id
C19_MatchAnsweredWithoutId ==
  /\ http.op = "webhook"
  /\ http.success
  /\ http.isDuplicate
  /\ http.notificationId = NoId
  /\ Len(notifications) = clock
  /\ notifications[Len(notifications)].id = <<"notification", clock>>

(***************************************************************************)
(* Properties of a degenerate heading                                      *)
(***************************************************************************)
\* the heading reference the webhook handler uses for a payload is the
\* vehicle position itself
DegenerateHeading(detectionData) ==
  /\ detectionData.vehicleCoordinates # NULL
  /\ \/ detectionData.nextRouteCoordinate = NULL
     \/ detectionData.nextRouteCoordinate = detectionData.vehicleCoordinates

HoldsCoordinate(list, id) ==
  \E i \in 1..Len(list) : list[i].id = id /\ list[i].coordinates # NULL

\* C20: no coordinate is produced from a bearing between two identical
\* points or without a vehicle position; the notification stays pending.
\* At the server: an ingest without explicit coordinate whose vehicle
\* position is missing, or whose heading reference is the vehicle position,
\* registers the notification without coordinate.  At the observer: the
\* polling interval, whose closure has no route, so that its heading
\* reference is the vehicle position, gives no notification a coordinate that
\* neither the server nor the observer held for it before.
C20_DegenerateStaysPending ==
  [][/\ \A detectionData \in ResolvePayloads :
          (/\ WebhookStep(detectionData)
           /\ detectionData.coordinates = NULL
           /\ \/ detectionData.vehicleCoordinates = NULL
              \/ DegenerateHeading(detectionData))
            => Ingested.coordinates = NULL
     /\ \A o \in Observers :
          Poll(o) =>
            \A i \in 1..Len(clientNotifications'[o]) :
              clientNotifications'[o][i].coordinates # NULL
                => \/ HoldsCoordinate(notifications, clientNotifications'[o][i].id)
                   \/ HoldsCoordinate(clientNotifications[o],
                                      clientNotifications'[o][i].id)]_vars

\* no screen has a vehicle position yet, and the server registered a
\* detection 300 cm due north of the vehicle position (100, 100): the
\* bearing of the position to itself is 0
C20_ResolvedWithoutHeading ==
  /\ \A o \in Observers : pc[o] = "mounting"
  /\ http.op = "webhook"
  /\ Len(notifications) > 0
  /\ notifications[Len(notifications)].coordinates = Coord(400, 100)
  /\ notifications[Len(notifications)].distance_m = 300

(***************************************************************************)
(* Properties of the merge verdict                                         *)
(***************************************************************************)
\* the entry a webhook call matched
MatchedIndex == IndexOfId(potholes, http'.existingPotholeId)

\* C21: the countIncremented verdict of an ingest that matched an entry is
\* true exactly when that ingest raised the entry's detection_count; it is
\* false when the detection only advanced the pending buffer or was a noise
\* repeat.
C21_VerdictIsCountRaise ==
  [][(WebhookTaken /\ http'.isDuplicate) =>
       (http'.countIncremented
          <=> potholes'[MatchedIndex].detection_count
                > potholes[MatchedIndex].detection_count)]_vars

\* the last call matched an entry and answered countIncremented = true, and
\* the entry still has detection_count 1 with two detections in its buffer
C21_BufferedReportedAsRaise ==
  /\ http.op = "webhook"
  /\ http.isDuplicate
  /\ http.countIncremented
  /\ http.detectionCount = 1
  /\ \E j \in 1..Len(potholes) :
       /\ potholes[j].id = http.existingPotholeId
       /\ potholes[j].detection_count = 1
       /\ potholes[j].pending_detections = 2

\* C22: every detection that matches a catalog entry, one within the noise
\* radius included, advances the entry's updated_at in the stored catalog to
\* the time of that detection.
C22_MatchAdvancesLastSeen ==
  [][(WebhookTaken /\ http'.isDuplicate) =>
       potholes'[MatchedIndex].updated_at = clock']_vars

\* the last call was a noise repeat of an entry, and the entry's updated_at
\* is still the time of an earlier detection
C22_NoiseLeavesLastSeen ==
  /\ http.op = "webhook"
  /\ http.isDuplicate
  /\ ~http.countIncremented
  /\ \E j \in 1..Len(potholes) :
       /\ potholes[j].id = http.existingPotholeId
       /\ potholes[j].updated_at < clock
       /\ notifications[Len(notifications)].coordinates # NULL
       /\ distanceCalculator(notifications[Len(notifications)].coordinates,
                             potholes[j].coordinates) <= NOISE_RADIUS

(***************************************************************************)
(* Properties of distance tracking                                         *)
(***************************************************************************)
\* the notifications of observer o that have a coordinate show the distance
\* of the vehicle position to it
Tracked(o, list) ==
  \A i \in 1..Len(list) :
    list[i].coordinates # NULL
      => list[i].current_distance
           = calculateDistance(vehiclePosition[o], list[i].coordinates)

\* C23: every notification an observer holds with a coordinate, entries
\* loaded from the catalog and nearby alerts included, comes to show the
\* distance of the vehicle position to that coordinate: once the vehicle
\* rests, current_distance is that distance from some time on.
C23_DistanceTracked ==
  \A o \in Screens :
    <>[](vehiclePosition[o] # NULL => Tracked(o, clientNotifications[o]))

\* the vehicle is at the last route point, nothing is in flight, the last
\* request the server answered was an update-distance it rejected with 404,
\* and the screen shows a catalog entry at a distance that is not the
\* vehicle's distance to it
C23_CatalogEntryUntracked ==
  \E o \in Screens :
    /\ vehicleIndex[o] = 1
    /\ requests = {}
    /\ http.op = "update-distance"
    /\ http.status = 404
    /\ \E i \in 1..Len(clientNotifications[o]) :
         /\ clientNotifications[o][i].id[1] = "pothole"
         /\ clientNotifications[o][i].coordinates # NULL
         /\ clientNotifications[o][i].current_distance
              # calculateDistance(vehiclePosition[o],
                                  clientNotifications[o][i].coordinates)

(***************************************************************************)
(* Properties of the polling path                                          *)
(***************************************************************************)
\* the copy of notification id in a list that holds it
CopyOf(list, id) == list[IndexOfId(list, id)]

\* C24: when a poll response carries, for an id the observer already holds,
\* a coordinate or a current_distance that differs from the held one, the
\* observer's copy has the response's value of each such field after the
\* poll; a changed coordinate is taken even when current_distance is the
\* same.
C24_PollAppliesChangedFields ==
  [][\A o \in Observers :
       Poll(o) =>
         \A i \in 1..Len(notifications) :
           HasId(clientNotifications[o], notifications[i].id) =>
             LET held == CopyOf(clientNotifications[o], notifications[i].id)
                 after == CopyOf(clientNotifications'[o], notifications[i].id)
             IN  /\ (/\ notifications[i].coordinates # NULL
                     /\ notifications[i].coordinates # held.coordinates)
                      => after.coordinates = notifications[i].coordinates
                 /\ notifications[i].current_distance # held.current_distance
                      => after.current_distance = notifications[i].current_distance]_vars

\* the polling observer holds a notification at one coordinate, the server
\* has it at another with the same current_distance, and a poll leaves the
\* observer's list as it is
C24_CoordinateChangeIgnored ==
  /\ vehiclePosition[Poller] # NULL
  /\ \E i \in 1..Len(notifications) :
       /\ HasId(clientNotifications[Poller], notifications[i].id)
       /\ notifications[i].coordinates # NULL
       /\ CopyOf(clientNotifications[Poller], notifications[i].id).coordinates # NULL
       /\ CopyOf(clientNotifications[Poller], notifications[i].id).coordinates
            # notifications[i].coordinates
       /\ CopyOf(clientNotifications[Poller], notifications[i].id).current_distance
            = notifications[i].current_distance
  /\ pollingInterval(clientNotifications[Poller], {}, notifications, 1,
                     vehiclePosition[Poller], MountVehicleIndex,
                     MountRouteCoordinates).list = clientNotifications[Poller]

\* C25: the polling path resolves on its own: after a poll taken with a
\* known vehicle position, the observer's copy of every notification that
\* the response carries without coordinate has a coordinate, whether the
\* observer saw the id for the first time or held it already.
C25_PollResolves ==
  [][\A o \in Observers :
       (Poll(o) /\ vehiclePosition[o] # NULL) =>
         \A i \in 1..Len(notifications) :
           notifications[i].coordinates = NULL
             => CopyOf(clientNotifications'[o], notifications[i].id).coordinates
                  # NULL]_vars

\* the vehicle position is known, the screen holds a notification that has
\* no coordinate on the screen and none at the server, and a poll leaves the
\* list as it is
C25_HeldStaysUnresolved ==
  \E o \in Screens :
    /\ vehiclePosition[o] # NULL
    /\ \E i \in 1..Len(notifications) :
         /\ notifications[i].coordinates = NULL
         /\ HasId(clientNotifications[o], notifications[i].id)
         /\ CopyOf(clientNotifications[o], notifications[i].id).coordinates = NULL
    /\ pollingInterval(clientNotifications[o], {}, notifications, 1,
                       vehiclePosition[o], MountVehicleIndex,
                       MountRouteCoordinates).list = clientNotifications[o]

\* C26: last writer wins by telemetry tick.  The vehicle is at the first
\* route point before it is at the last (SpecDistance), so an update that
\* carries the first route point is older than one that carries the last:
\* once the server or an observer has applied to a notification an update
\* from the last route point, no update from the first is applied to it.
C26_NewerTickWins ==
  [][/\ \A i \in 1..Len(notifications) :
          notifications[i].vehicle = Route[Len(Route)]
            => notifications'[i].vehicle # Route[1]
     /\ \A o \in Observers :
          \A i \in 1..Len(clientNotifications[o]) :
            (/\ clientNotifications[o][i].vehicle = Route[Len(Route)]
             /\ HasId(clientNotifications'[o], clientNotifications[o][i].id))
              => CopyOf(clientNotifications'[o], clientNotifications[o][i].id).vehicle
                   # Route[1]]_vars

\* the vehicle is at the last route point and the screen's copy of a
\* notification carries the update from there, which it can only have from
\* the server, while the server's notification now carries the update from
\* the first route point
C26_OlderTickApplied ==
  \E o \in Screens :
    /\ vehicleIndex[o] = 1
    /\ \E i \in 1..Len(notifications) :
         /\ notifications[i].coordinates # NULL
         /\ notifications[i].vehicle = Route[1]
         /\ notifications[i].current_distance
              = distanceCalculator(Route[1], notifications[i].coordinates)
         /\ HasId(clientNotifications[o], notifications[i].id)
         /\ CopyOf(clientNotifications[o], notifications[i].id).vehicle
              = Route[Len(Route)]

Rejected(req) ==
  LET notification == getNotification(notifications, req.notificationId)
  IN  IF req.notificationId = NoId \/ req.coordinates = NULL THEN 400
      ELSE IF notification = NULL THEN 404
      ELSE IF isValidCoord(notification.coordinates) /\ req.coordinates \in NonFinite
      THEN 400
      ELSE 200

\* C28: POST /update-distance without notificationId or vehicleCoordinates is
\* answered 400, with an unknown notificationId 404, and with vehicle
\* coordinates that are not finite, for a notification that holds a resolved
\* coordinate, 400; none of them changes a notification of the live set or
\* broadcasts an event.
C28_RejectsWithoutSideEffects ==
  [][\A req \in DistanceRequests :
       (UpdateDistanceStep(req) /\ Rejected(req) # 200)
         => /\ http'.status = Rejected(req)
            /\ http'.success = FALSE
            /\ notifications' = notifications
            /\ inbox' = inbox]_vars

\* a distance update with a vehicle position that is not finite was rejected
\* while the notification is resolved and an observer listens
C28_NonFiniteRejected ==
  /\ http.op = "update-distance"
  /\ http.status = 400
  /\ \E i \in 1..Len(notifications) :
       /\ isValidCoord(notifications[i].coordinates)
       /\ notifications[i].vehicle \notin NonFinite
  /\ \E o \in Observers : ws[o] = "open"

\* C29: a coordinate whose latitude or longitude is not finite is never stored
\* in a notification or in a catalog entry; the request that carries it is
\* rejected and leaves the live set and the catalog unchanged.
C29_InvalidNeverStored ==
  /\ [](/\ \A i \in 1..Len(notifications) :
             notifications[i].coordinates # NULL
               => isValidCoord(notifications[i].coordinates)
        /\ \A i \in 1..Len(potholes) : isValidCoord(potholes[i].coordinates))
  /\ [][\A req \in CoordinateRequests :
          (SetPotholeCoordinatesStep(req) /\ req.coordinates \in NonFinite)
            => /\ http'.success = FALSE
               /\ notifications' = notifications
               /\ potholes' = potholes]_vars

\* /set-pothole-coordinates answered 200 and a notification holds a
\* coordinate that is not finite
C29_NonFiniteStored ==
  /\ http.op = "set-pothole-coordinates"
  /\ http.status = 200
  /\ \E i \in 1..Len(notifications) : notifications[i].coordinates \in NonFinite

(***************************************************************************)
(* Properties of the proximity query                                       *)
(***************************************************************************)
\* the catalog entries within radius of coordinates, in the catalog's order
EntriesWithin(coordinates, radius) ==
  SelectSeq(potholes,
            LAMBDA entry : calculateDistance(coordinates, entry.coordinates) <= radius)

\* C30: for every query coordinate the proximity query returns exactly the
\* catalog entries whose distance to it is at most the radius, in the order
\* of the catalog, and leaves the catalog unchanged.
C30_NearbyIsExact ==
  [][\A coordinates \in QueryCoordinates, radius \in QueryRadii :
       GetPotholesNearbyStep(coordinates, radius)
         => /\ http'.potholes = EntriesWithin(coordinates, radius)
            /\ potholes' = potholes]_vars

\* a query was answered with no entry although the catalog holds an entry
\* within the smallest radius of a query point
C30_EntryInRangeNotReturned ==
  /\ http.op = "potholes-nearby"
  /\ http.status = 200
  /\ http.potholes = <<>>
  /\ \A coordinates \in QueryCoordinates :
       \E i \in 1..Len(potholes) :
         calculateDistance(coordinates, potholes[i].coordinates) <= 100

C32_CounterInvariants ==
  /\ [](\A i \in 1..Len(potholes) :
          /\ potholes[i].detection_count >= 1
          /\ potholes[i].pending_detections \in 0..(DETECTIONS_PER_COUNT_INCREMENT - 1))
  /\ [][\A i \in 1..Len(potholes), j \in 1..Len(potholes') :
          potholes'[j].id = potholes[i].id
            => \/ potholes'[j].detection_count = potholes[i].detection_count
               \/ /\ potholes'[j].detection_count = potholes[i].detection_count + 1
                  /\ potholes'[j].pending_detections = 0]_vars

\* an entry's count was raised a moment ago: its buffer is empty again
C32_CountRaised ==
  /\ http.op = "webhook"
  /\ http.countIncremented
  /\ \E i \in 1..Len(potholes) :
       /\ potholes[i].id = http.existingPotholeId
       /\ potholes[i].detection_count = 2
       /\ potholes[i].pending_detections = 0

(***************************************************************************)
(* Properties of batch events                                              *)
(***************************************************************************)
\* C33: a webhook event with k >= 1 detections adds k notifications to the
\* live set, one for each detection of the event.
C33_OnePerDetection ==
  [][\A detectionData \in BatchPayloads :
       WebhookStep(detectionData)
         => /\ Len(notifications') = Len(notifications) + Len(detectionData.detections)
            /\ \A k \in 1..Len(detectionData.detections) :
                 \E i \in (Len(notifications) + 1)..Len(notifications') :
                   notifications'[i].distance_m = detectionData.detections[k].d]_vars

\* the first event was a frame with two detections and the live set holds
\* one notification, for the first of them
C33_SecondDetectionDropped ==
  /\ clock = 1
  /\ http.op = "webhook"
  /\ Len(notifications) = 1
  /\ notifications[1].distance_m \in {BatchPayload.detections[1].d,
                                      BatchTelemetry.detections[1].d}

\* C34: an ingest never removes an entry from the catalog, also while the
\* file cannot be read or parsed.
C34_EntriesKept ==
  [][\A i \in 1..Len(potholes) :
       \E j \in 1..Len(potholes') : potholes'[j].id = potholes[i].id]_vars

\* the first detection was resolved and stored, and the catalog holds no
\* entry within the duplicate threshold of it
C34_FirstEntryGone ==
  /\ notifications # <<>>
  /\ potholes # <<>>
  /\ \A j \in 1..Len(potholes) :
       calculateDistance(notifications[1].coordinates, potholes[j].coordinates)
         > DUPLICATE_THRESHOLD_METERS

(***************************************************************************)
(* Properties of the observer's mount                                      *)
(***************************************************************************)
\* C35: the catalog load of initializeMap drops no notification: whatever
\* the observer holds before the load it holds after it.
C35_LoadKeepsNotifications ==
  [][\A o \in Screens :
       LoadPotholes(o)
         => \A i \in 1..Len(clientNotifications[o]) :
              HasId(clientNotifications'[o], clientNotifications[o][i].id)]_vars

\* the catalog is loaded, and a distance update that the observer posted for
\* a notification it held is still in flight while it holds it no more
C35_HeldNotificationDropped ==
  \E o \in Screens :
    /\ pc[o] = "ready"
    /\ \E req \in requests :
         /\ req.notificationId[1] = "notification"
         /\ ~HasId(clientNotifications[o], req.notificationId)

\* the coordinate dead-reckoned for notification n from observer o's
\* telemetry as it is now
DeadReckoned(o, n) ==
  calculatePotholeCoordinatesApp(vehiclePosition[o],
    nextRoutePoint(routeCoordinates[o], vehicleIndex[o], vehiclePosition[o]),
    n.distance_m, OrElse(n.lateral_m, 0))

\* a notification without coordinate that o does not hold and can resolve
Derivable(o, n) ==
  /\ n.coordinates = NULL
  /\ n.distance_m # UNDEFINED /\ n.distance_m > 0
  /\ vehiclePosition[o] # NULL
  /\ ~HasId(clientNotifications[o], n.id)

\* C36: a coordinate that the polling path or the push handler derives for a
\* notification is dead-reckoned from the vehicle position, the route index
\* and the route at the time of the poll or the event.
C36_DerivedFromCurrentTelemetry ==
  [][\A o \in Screens :
       /\ Poll(o)
            => \A i \in 1..Len(notifications) :
                 Derivable(o, notifications[i])
                   => CopyOf(clientNotifications'[o], notifications[i].id).coordinates
                        = DeadReckoned(o, notifications[i])
       /\ (HandleMessage(o) /\ Head(inbox[o]).type = "pothole_detected")
            => (Derivable(o, Head(inbox[o]).data)
                  => CopyOf(clientNotifications'[o], Head(inbox[o]).data.id).coordinates
                       = DeadReckoned(o, Head(inbox[o]).data))]_vars

\* the route runs east along one latitude and the observer holds a
\* coordinate, derived for a detection straight ahead, on another latitude
C36_DerivedOffTheRoute ==
  \E o \in Screens :
    /\ routeCoordinates[o] = Route
    /\ \E i \in 1..Len(clientNotifications[o]) :
         /\ clientNotifications[o][i].coordinates # NULL
         /\ clientNotifications[o][i].lateral_m = 0
         /\ clientNotifications[o][i].coordinates.latitude # Route[1].latitude

\* C38: a screen that was torn down holds no open push connection and makes
\* no reconnect attempt.
C38_NoChannelAfterTeardown ==
  /\ [](\A o \in Observers : pc[o] = "unmounted" => ws[o] # "open")
  /\ [][\A o \in Observers : pc[o] = "unmounted" => ~WsReconnect(o)]_vars

\* a screen that is gone is connected to the server and an event is on its
\* way to it
C38_ConnectedAfterTeardown ==
  \E o \in Observers :
    /\ pc[o] = "unmounted"
    /\ ws[o] = "open"
    /\ inbox[o] # <<>>

(***************************************************************************)
(* Properties of the detector's sender                                     *)
(***************************************************************************)
\* C39: the payload that a posting thread reads is the payload that
\* send_batch built for it, in every interleaving of the thread with the
\* return of send_batch and with the next frame's send.
C39_PostedIsBuilt ==
  \A t \in 1..Len(detector.threads) :
    detector.threads[t].read # Unread
      => detector.threads[t].read = detector.threads[t].built

\* a thread posted the payload of the frame after its own
C39_NextFramePosted ==
  \E t \in 1..Len(detector.threads) :
    /\ detector.threads[t].read \notin {Unread, Indeterminate}
    /\ detector.threads[t].read.frame = detector.threads[t].built.frame + 1

(***************************************************************************)
(* Properties of coordinates on the equator or the prime meridian           *)
(***************************************************************************)
ZeroComponent(coordinates) ==
  /\ coordinates # NULL
  /\ coordinates.latitude = 0 \/ coordinates.longitude = 0

\* C37: a resolved coordinate whose latitude or longitude is 0 is handled
\* like any other: after its ingest the catalog holds an entry within the
\* duplicate threshold of it, created for it or matched by it.
C37_ZeroCoordinateStored ==
  [][(WebhookTaken /\ ZeroComponent(Ingested.coordinates))
       => \E j \in 1..Len(potholes') :
            calculateDistance(potholes'[j].coordinates, Ingested.coordinates)
              <= DUPLICATE_THRESHOLD_METERS]_vars

\* detections were resolved to a point of the prime meridian more than once
\* and the catalog has no entry near it
C37_MeridianNeverStored ==
  /\ Cardinality({i \in 1..Len(notifications) :
                    ZeroComponent(notifications[i].coordinates)}) >= 2
  /\ \A i \in 1..Len(notifications) :
       ZeroComponent(notifications[i].coordinates)
         => FarFromEveryEntry(notifications[i].coordinates)
====
